---------------------------- MODULE Spec2Model ----------------------------
(***************************************************************************)
(* Telemetry ingestion service: validator Lambda, processor Lambda, the    *)
(* DynamoDB table they write, and the query Lambda.                        *)
(*                                                                         *)
(* Strings are sequences of character codes (ASCII).  A JavaScript value   *)
(* that is not a string (a missing field) is the one-element sequence      *)
(* Undefined, which is no string.  A Date is a record [valid, day, ms]:    *)
(* day is the day number since 1970-01-01 and ms the millisecond within    *)
(* that day, so getTime() = day * 86400000 + ms (the product itself does   *)
(* not fit TLC's 32-bit integers; the pair is compared instead).           *)
(***************************************************************************)
EXTENDS Integers, Sequences, FiniteSets, TLC

(***************************************************************************)
(* Characters and strings                                                  *)
(***************************************************************************)
Undefined == <<-1>>

IsString(v) == \A i \in 1..Len(v) : v[i] >= 0

\* JavaScript truthiness of a value that is a string or undefined: !v
Falsy(v) == v = Undefined \/ v = <<>>

ChPlus == 43
ChMinus == 45
ChDot == 46
ChZero == 48
ChColon == 58
ChT == 84
ChZ == 90

IsDigit(c) == c >= 48 /\ c <= 57

\* [A-Za-z0-9_-]
IsIdChar(c) ==
    \/ (c >= 65 /\ c <= 90)
    \/ (c >= 97 /\ c <= 122)
    \/ IsDigit(c)
    \/ c = 95
    \/ c = ChMinus

\* the character of the decimal digit of n at the power of ten p
DigitAt(n, p) == ChZero + ((n \div p) % 10)

\* the number that the n digit characters of s from position i denote
RECURSIVE NumAt(_, _, _)
NumAt(s, i, n) == IF n = 0 THEN 0 ELSE 10 * NumAt(s, i, n - 1) + (s[i + n - 1] - ChZero)

\* s has digit characters at the n positions from i
DigitsAt(s, i, n) == Len(s) >= i + n - 1 /\ \A k \in i..(i + n - 1) : IsDigit(s[k])

\* s < t in the order of the store's string sort keys (code units, left to right)
RECURSIVE StrLess(_, _)
StrLess(s, t) ==
    IF t = <<>> THEN FALSE
    ELSE IF s = <<>> THEN TRUE
    ELSE IF s[1] # t[1] THEN s[1] < t[1]
    ELSE StrLess(Tail(s), Tail(t))

(***************************************************************************)
(* Date: the calendar arithmetic of the JavaScript Date object             *)
(***************************************************************************)
MsPerDay == 24 * 60 * 60 * 1000

InvalidDate == [valid |-> FALSE, day |-> 0, ms |-> 0]

MkDate(d, m) == [valid |-> TRUE, day |-> d, ms |-> m]

\* a.getTime() > b.getTime()
TimeGreater(a, b) == a.day > b.day \/ (a.day = b.day /\ a.ms > b.ms)

\* the Date delta milliseconds after a (0 <= delta < one day)
AddMs(a, delta) ==
    IF a.ms + delta >= MsPerDay
    THEN MkDate(a.day + 1, a.ms + delta - MsPerDay)
    ELSE MkDate(a.day, a.ms + delta)

\* day number of the proleptic Gregorian date y-m-d (a day the month does not
\* have carries into the next month); each step takes what the one before computed
DaysOfEra(era, yoe, doy) ==
    era * 146097 + (yoe * 365 + yoe \div 4 - yoe \div 100 + doy) - 719468

DaysOfYear(yy, era, mp, d) ==
    DaysOfEra(era, yy - era * 400, (153 * mp + 2) \div 5 + d - 1)

DaysFromShifted(yy, mp, d) == DaysOfYear(yy, yy \div 400, mp, d)

DaysFromCivil(y, m, d) ==
    DaysFromShifted(IF m <= 2 THEN y - 1 ELSE y, IF m > 2 THEN m - 3 ELSE m + 9, d)

\* [y, m, d] of a day number
CivilOf(y0, m, d) == [y |-> y0 + (IF m <= 2 THEN 1 ELSE 0), m |-> m, d |-> d]

CivilOfMonth(era, yoe, doy, mp) ==
    CivilOf(yoe + era * 400,
            IF mp < 10 THEN mp + 3 ELSE mp - 9,
            doy - (153 * mp + 2) \div 5 + 1)

CivilOfDayOfYear(era, yoe, doy) == CivilOfMonth(era, yoe, doy, (5 * doy + 2) \div 153)

CivilOfYearOfEra(era, doe, yoe) ==
    CivilOfDayOfYear(era, yoe, doe - (365 * yoe + yoe \div 4 - yoe \div 100))

CivilOfDayOfEra(era, doe) ==
    CivilOfYearOfEra(era, doe,
        (doe - doe \div 1460 + doe \div 36524 - doe \div 146096) \div 365)

CivilOfEra(z, era) == CivilOfDayOfEra(era, z - era * 146097)

CivilOfShifted(z) == CivilOfEra(z, z \div 146097)

CivilFromDays(z0) == CivilOfShifted(z0 + 719468)

\* the largest day number a Date holds (8.64e15 ms = 100,000,000 days)
MaxDay == 100 * 1000 * 1000

\* the year of toISOString: four digits, or a sign and six digits outside 0..9999
ExpandedYearChars(sign, ay) ==
    <<sign, DigitAt(ay, 100000), DigitAt(ay, 10000), DigitAt(ay, 1000),
      DigitAt(ay, 100), DigitAt(ay, 10), DigitAt(ay, 1)>>

YearChars(y) ==
    IF y >= 0 /\ y <= 9999
    THEN <<DigitAt(y, 1000), DigitAt(y, 100), DigitAt(y, 10), DigitAt(y, 1)>>
    ELSE ExpandedYearChars(IF y < 0 THEN ChMinus ELSE ChPlus, IF y < 0 THEN -y ELSE y)

\* -MM-DDTHH:mm:ss.sssZ
DateTimeChars(m, d, hh, mi, ss, mmm) ==
    <<ChMinus, DigitAt(m, 10), DigitAt(m, 1),
      ChMinus, DigitAt(d, 10), DigitAt(d, 1),
      ChT, DigitAt(hh, 10), DigitAt(hh, 1),
      ChColon, DigitAt(mi, 10), DigitAt(mi, 1),
      ChColon, DigitAt(ss, 10), DigitAt(ss, 1),
      ChDot, DigitAt(mmm, 100), DigitAt(mmm, 10), DigitAt(mmm, 1), ChZ>>

IsoFormat(c, ms) ==
    YearChars(c.y) \o
    DateTimeChars(c.m, c.d, ms \div 3600000, (ms \div 60000) % 60, (ms \div 1000) % 60,
                  ms % 1000)

\* Date.prototype.toISOString of a valid Date
ToISOString(dt) == IsoFormat(CivilFromDays(dt.day), dt.ms)

\* The date-time string format of Date.parse: the year (four digits, or a sign and
\* six digits, "-000000" excluded), then -MM-DD, then optionally THH:mm:ss with
\* optional .sss, ended by Z.  IsoYearLen is the length of the year part.
IsoYearLen(s) ==
    IF Len(s) >= 1 /\ (s[1] = ChPlus \/ s[1] = ChMinus) THEN 7 ELSE 4

IsoYearOk(s, yl) ==
    IF yl = 7
    THEN DigitsAt(s, 2, 6) /\ ~(s[1] = ChMinus /\ NumAt(s, 2, 6) = 0)
    ELSE DigitsAt(s, 1, 4)

IsoYear(s, yl) ==
    IF yl = 7
    THEN (IF s[1] = ChMinus THEN -1 ELSE 1) * NumAt(s, 2, 6)
    ELSE NumAt(s, 1, 4)

\* -MM-DD after the year
IsoDateOk(s, yl) ==
    /\ Len(s) - yl >= 6
    /\ s[yl + 1] = ChMinus /\ DigitsAt(s, yl + 2, 2)
    /\ s[yl + 4] = ChMinus /\ DigitsAt(s, yl + 5, 2)

\* THH:mm:ss after the date
IsoTimeOk(s, yl) ==
    /\ Len(s) - yl >= 15
    /\ s[yl + 7] = ChT /\ DigitsAt(s, yl + 8, 2)
    /\ s[yl + 10] = ChColon /\ DigitsAt(s, yl + 11, 2)
    /\ s[yl + 13] = ChColon /\ DigitsAt(s, yl + 14, 2)

\* the shape of the part after the year, n characters long: 1 date only, 2 with
\* seconds, 3 with milliseconds, 0 not of the format
IsoShapeOfLen(s, yl, n) ==
    IF ~IsoDateOk(s, yl) THEN 0
    ELSE IF n = 6 THEN 1
    ELSE IF ~IsoTimeOk(s, yl) THEN 0
    ELSE IF n = 16 /\ s[yl + 16] = ChZ THEN 2
    ELSE IF n = 20 /\ s[yl + 16] = ChDot /\ DigitsAt(s, yl + 17, 3) /\ s[yl + 20] = ChZ
    THEN 3
    ELSE 0

IsoShape(s, yl) == IF IsoYearOk(s, yl) THEN IsoShapeOfLen(s, yl, Len(s) - yl) ELSE 0

\* the Date of a day number and the milliseconds from its start, if in range
DateInRange(day, ms) ==
    IF day >= -MaxDay /\ (day < MaxDay \/ (day = MaxDay /\ ms % MsPerDay = 0))
    THEN MkDate(day, ms % MsPerDay)
    ELSE InvalidDate

\* the Date of the fields of a date-time string; hour 24 is the end of the day
DateOfFields(y, mo, d, hh, mi, ss, mmm) ==
    IF /\ mo >= 1 /\ mo <= 12 /\ d >= 1 /\ d <= 31
       /\ mi <= 59 /\ ss <= 59
       /\ (hh <= 23 \/ (hh = 24 /\ mi = 0 /\ ss = 0 /\ mmm = 0))
    THEN DateInRange(DaysFromCivil(y, mo, d) + (IF hh = 24 THEN 1 ELSE 0),
                     hh * 3600000 + mi * 60000 + ss * 1000 + mmm)
    ELSE InvalidDate

ParseShaped(s, legacy, yl, shape) ==
    IF shape = 0 THEN legacy
    ELSE DateOfFields(IsoYear(s, yl), NumAt(s, yl + 2, 2), NumAt(s, yl + 5, 2),
                      IF shape >= 2 THEN NumAt(s, yl + 8, 2) ELSE 0,
                      IF shape >= 2 THEN NumAt(s, yl + 11, 2) ELSE 0,
                      IF shape >= 2 THEN NumAt(s, yl + 14, 2) ELSE 0,
                      IF shape = 3 THEN NumAt(s, yl + 17, 3) ELSE 0)

ParseWithYear(s, legacy, yl) == ParseShaped(s, legacy, yl, IsoShape(s, yl))

\* new Date(s) for a string s.  A string outside the date-time string format falls
\* back to an implementation-defined parse, whose outcome is the parameter legacy.
ParseDate(s, legacy) == ParseWithYear(s, legacy, IsoYearLen(s))

(***************************************************************************)
(* utils/validation                                                        *)
(***************************************************************************)
isValidChargerId(chargerId) ==
    IF Falsy(chargerId) \/ ~IsString(chargerId) THEN FALSE
    ELSE Len(chargerId) >= 1 /\ \A i \in 1..Len(chargerId) : IsIdChar(chargerId[i])

\* the parsed date only asked to be a date
RoundTripsValidOnly(date, timestamp) == date.valid

\* !isNaN(date.getTime()) && date.toISOString() === timestamp
RoundTrips(date, timestamp) == date.valid /\ ToISOString(date) = timestamp

\* the timestamp only asked to parse, not to be what toISOString prints
isValidTimestampParseOnly(timestamp, legacy) ==
    IF Falsy(timestamp) \/ ~IsString(timestamp) THEN FALSE
    ELSE ParseDate(timestamp, legacy).valid

isValidTimestamp(timestamp, legacy) ==
    IF Falsy(timestamp) \/ ~IsString(timestamp) THEN FALSE
    ELSE RoundTrips(ParseDate(timestamp, legacy), timestamp)

\* 5 minutes, in milliseconds
clockSkewMs == 5 * 60 * 1000

\* the tolerance taken as exclusive: a timestamp at the limit counts as future
isFutureTimestampInclusive(timestamp, now) ==
    ~TimeGreater(AddMs(now, clockSkewMs), timestamp)

\* no timestamp counted as future
isFutureTimestampNever(timestamp, now) == FALSE

isFutureTimestamp(timestamp, now) == TimeGreater(timestamp, AddMs(now, clockSkewMs))

(***************************************************************************)
(* lambda/validator: validateEvent                                         *)
(***************************************************************************)
Rejected(reason) ==
    [isValid |-> FALSE, rejectionReason |-> reason, validatedEvent |-> Undefined]

\* the last check, and the ValidatedEvent, given new Date(event.timestamp)
ValidateParsed(event, now, parsedTimestamp) ==
    IF isFutureTimestamp(parsedTimestamp, now) THEN Rejected("FutureTimestamp")
    ELSE [isValid |-> TRUE,
          rejectionReason |-> "",
          validatedEvent |-> [chargerId |-> event.chargerId,
                              timestamp |-> parsedTimestamp,
                              data |-> event.data]]

\* validateEvent with the format of the chargerId checked before the presence of
\* the timestamp
validateEventFormatFirst(event, now, legacy) ==
    IF Falsy(event.chargerId) THEN Rejected("MissingChargerId")
    ELSE IF ~isValidChargerId(event.chargerId) THEN Rejected("InvalidChargerIdFormat")
    ELSE IF Falsy(event.timestamp) THEN Rejected("MissingTimestamp")
    ELSE IF ~isValidTimestamp(event.timestamp, legacy) THEN Rejected("InvalidTimestampFormat")
    ELSE ValidateParsed(event, now, ParseDate(event.timestamp, legacy))

\* The checks of validateEvent in the order of the code; now is the clock that
\* isFutureTimestamp reads, legacy the outcome of an implementation-defined parse.
validateEvent(event, now, legacy) ==
    IF Falsy(event.chargerId) THEN Rejected("MissingChargerId")
    ELSE IF Falsy(event.timestamp) THEN Rejected("MissingTimestamp")
    ELSE IF ~isValidChargerId(event.chargerId) THEN Rejected("InvalidChargerIdFormat")
    ELSE IF ~isValidTimestamp(event.timestamp, legacy) THEN Rejected("InvalidTimestampFormat")
    ELSE ValidateParsed(event, now, ParseDate(event.timestamp, legacy))

\* JSON.stringify(validatedEvent) as the processor reads it back: the Date becomes
\* its toISOString, the payload is JSON already
InvokePayload(validatedEvent) ==
    [chargerId |-> validatedEvent.chargerId,
     timestamp |-> ToISOString(validatedEvent.timestamp),
     data |-> validatedEvent.data]

(***************************************************************************)
(* Bounds of the model                                                     *)
(***************************************************************************)
\* deliveries of a raw event from the event source
MaxEvents == 2
\* clock ticks during a run
MaxTick == 1
\* milliseconds per clock tick
TickMs == 600
\* retries the invoking service gives the validator (set nowhere in the stack)
MaxValidatorRetries == 1

(***************************************************************************)
(* Inputs                                                                  *)
(***************************************************************************)
\* the clock at the start of a run: 2024-01-15T10:30:00.250Z
StartOfRun == MkDate(19737, 37800250)

IdA == <<65>>
IdB == <<66>>
\* "CHG_0-1"
IdLong == <<67, 72, 71, 95, 48, 45, 49>>
\* "bad id!"
IdBad == <<98, 97, 100, 32, 105, 100, 33>>

\* payloads, as JSON text: {} and {"v":1}
DataEmpty == <<123, 125>>
DataV1 == <<123, 34, 118, 34, 58, 49, 125>>

\* 2024-01-15T10:16:40.000Z, before StartOfRun
TsEarly == ToISOString(MkDate(19737, 37000000))
\* ten minutes after StartOfRun
TsFuture == ToISOString(AddMs(StartOfRun, 10 * 60 * 1000))
\* exactly StartOfRun + 5 minutes, and one and two milliseconds later
TsEdge == ToISOString(AddMs(StartOfRun, clockSkewMs))
TsEdge1 == ToISOString(AddMs(StartOfRun, clockSkewMs + 1))
TsEdge2 == ToISOString(AddMs(StartOfRun, clockSkewMs + 2))
\* 2024-01-15T10:16:40Z: parses, but is not what toISOString prints
TsNoMillis == SubSeq(TsEarly, 1, 19) \o <<ChZ>>
\* 2024-01-15: date only
TsDateOnly == SubSeq(TsEarly, 1, 10)
\* +002024-01-15T10:16:40.000Z: the expanded form of a four-digit year
TsExpanded == <<ChPlus, ChZero, ChZero>> \o TsEarly
\* 2024-02-31T10:16:40.000Z: a day the month does not have
TsFeb31 == SubSeq(TsEarly, 1, 5) \o <<48, 50, 45, 51, 49>> \o SubSeq(TsEarly, 11, 24)
\* "now"
TsWord == <<110, 111, 119>>
\* -000001-06-01T00:00:00.000Z and -000002-06-01T00:00:00.000Z
TsBC1 == ToISOString(MkDate(DaysFromCivil(-1, 6, 1), 0))
TsBC2 == ToISOString(MkDate(DaysFromCivil(-2, 6, 1), 0))
\* +010000-01-01T00:00:00.000Z
TsY10K == ToISOString(MkDate(DaysFromCivil(10000, 1, 1), 0))

\* what an implementation-defined parse may give: no date, or some date
LegacyOutcomes == {InvalidDate, MkDate(0, 0)}

\* the outcomes the fallback may have for the value s: none is used when s is of the
\* date-time string format, or is no string to parse
LegacyFor(s) ==
    IF Falsy(s) \/ IsoShape(s, IsoYearLen(s)) # 0 THEN {InvalidDate} ELSE LegacyOutcomes

RawEvent(c, t, d) == [chargerId |-> c, timestamp |-> t, data |-> d]

\* the raw events the validation function is applied to
ValChargerIds == {Undefined, <<>>, IdA, IdLong, IdBad}
ValTimestamps ==
    {Undefined, <<>>, TsEarly, TsEdge, TsEdge1, TsEdge2, TsNoMillis, TsDateOnly,
     TsExpanded, TsFeb31, TsWord, TsBC1, TsBC2, TsY10K}
ValNows == {StartOfRun, AddMs(StartOfRun, 1)}

\* the raw events the event source delivers to the pipeline
RawEvents ==
    { RawEvent(IdA, TsEarly, DataV1),
      RawEvent(IdA, TsBC1, DataV1),
      RawEvent(IdA, TsBC2, DataEmpty),
      RawEvent(Undefined, TsEarly, DataV1),
      RawEvent(IdA, TsNoMillis, DataEmpty),
      RawEvent(IdA, TsFuture, DataV1) }

(***************************************************************************)
(* State                                                                   *)
(***************************************************************************)
VARIABLES
    clock,      \* ticks since StartOfRun: what new Date() and Date.now() read
    ev,         \* per delivery: its raw event and where it is in the pipeline
    table,      \* the items of the TelemetryEvents table
    dlq,        \* the messages of the processor's dead-letter queue
    uuidCount,  \* calls of randomUUID so far: the n-th call returns the n-th id
    issued,     \* the eventIds the processing attempts used so far
    inv,        \* what the latest handler invocation did and returned
    faults,     \* whether the services of the write path may fail in this run
    vIn,        \* the raw event given to validateEvent alone
    vNow,       \* the clock of that validation
    vOut        \* its result

vars == <<clock, ev, table, dlq, uuidCount, issued, inv, faults, vIn, vNow, vOut>>

pipelineVars == <<clock, ev, table, dlq, uuidCount, issued, inv, faults>>
validationVars == <<vIn, vNow, vOut>>

Events == 1..MaxEvents

ClockAt(tick) == AddMs(StartOfRun, tick * TickMs)

Now == ClockAt(clock)

NoResult == [isValid |-> FALSE, rejectionReason |-> "none", validatedEvent |-> Undefined]
NoVerdict == [isValid |-> FALSE, rejectionReason |-> "none"]
NoPayload == [chargerId |-> Undefined, timestamp |-> Undefined, data |-> Undefined]
NoResponse == [statusCode |-> 0]

\* the results of the two sub-checks of the health handler, before it ran
NoHealth == [dynamodb |-> "none", dlq |-> [status |-> "none", depth |-> 0]]

NoCounts == [validated |-> 0, rejected |-> 0, success |-> 0, failure |-> 0]

IdleEvent ==
    [pc |-> "idle", raw |-> NoPayload, result |-> NoVerdict, payload |-> NoPayload,
     vAttempts |-> 0, invokes |-> 0, pAttempts |-> 0, pFailures |-> 0, sends |-> 0,
     receivedAt |-> Undefined, counts |-> NoCounts]

NoInvocation ==
    [handler |-> "none", e |-> 0, at |-> 0, outcome |-> "none", calls |-> <<>>,
     sends |-> 0, invokeCalls |-> 0, invokes |-> 0, thrown |-> FALSE, param |-> Undefined,
     storeResult |-> "none", error |-> "", resp |-> NoResponse, uuid |-> 0,
     item |-> NoPayload, health |-> NoHealth, order |-> <<>>]

(***************************************************************************)
(* CloudWatch: one PutMetricData call is [data, delivered]                 *)
(***************************************************************************)
Datum(name, unit, value, dim) ==
    [MetricName |-> name, Unit |-> unit, Value |-> value, Dimension |-> dim]

\* cloudwatchClient.send inside try/catch: the call is made, and delivered or not
MetricCall(data, cwOk) == [data |-> data, delivered |-> cwOk]

\* the data of publishValidationMetrics(validated, rejectionReason)
ValidationMetricData(validated, rejectionReason) ==
    IF validated
    THEN <<Datum("EventsValidated", "Count", 1, "")>>
    ELSE <<Datum("EventsRejected", "Count", 1, rejectionReason)>>

\* the count left out of the data of a failed attempt
ProcessorMetricDataNoFailureCount(processingDuration, status) ==
    IF status = "failure"
    THEN <<Datum("ProcessingDuration", "Milliseconds", processingDuration, "")>>
    ELSE <<Datum("ProcessingDuration", "Milliseconds", processingDuration, ""),
           Datum("EventsProcessed", "Count", 1, status)>>

\* the duration measured for a stored attempt only
ProcessorMetricDataDurationOnSuccess(processingDuration, status) ==
    IF status = "success"
    THEN <<Datum("ProcessingDuration", "Milliseconds", processingDuration, ""),
           Datum("EventsProcessed", "Count", 1, status)>>
    ELSE <<Datum("EventsProcessed", "Count", 1, status)>>

\* the data of publishMetrics(processingDuration, status)
ProcessorMetricData(processingDuration, status) ==
    <<Datum("ProcessingDuration", "Milliseconds", processingDuration, ""),
      Datum("EventsProcessed", "Count", 1, status)>>

\* how many count-type data of a name, and of a name and dimension, a call carries
CountSignals(data, name) ==
    Cardinality({i \in DOMAIN data : data[i].MetricName = name /\ data[i].Unit = "Count"})

CountSignalsOf(data, name, dim) ==
    Cardinality({i \in DOMAIN data : /\ data[i].MetricName = name
                                      /\ data[i].Unit = "Count"
                                      /\ data[i].Dimension = dim})

\* the data of publishQueryMetrics(duration)
QueryMetricData(duration) ==
    <<Datum("QueryDuration", "Milliseconds", duration, "")>>

(***************************************************************************)
(* lambda/processor                                                        *)
(***************************************************************************)
TTL_DAYS == 90

\* retryAttempts of the processor's asynchronous invocation
retryAttempts == 2

\* randomUUID(): the n-th id generated
randomUUID(n) == n

\* the eventId derived from the event instead of generated
enrichEventDerivedId(validatedEvent, uuid, now, legacy) ==
    [eventId |-> Len(validatedEvent.chargerId) + Len(validatedEvent.timestamp),
     chargerId |-> validatedEvent.chargerId,
     timestamp |-> ParseDate(validatedEvent.timestamp, legacy),
     data |-> validatedEvent.data,
     metadata |-> [receivedAt |-> now, processedAt |-> now]]

\* the clock read once for receivedAt and once more, later, for processedAt
enrichEventTwoClocks(validatedEvent, uuid, now, legacy) ==
    [eventId |-> uuid,
     chargerId |-> validatedEvent.chargerId,
     timestamp |-> ParseDate(validatedEvent.timestamp, legacy),
     data |-> validatedEvent.data,
     metadata |-> [receivedAt |-> now, processedAt |-> AddMs(now, 1)]]

enrichEvent(validatedEvent, uuid, now, legacy) ==
    [eventId |-> uuid,
     chargerId |-> validatedEvent.chargerId,
     timestamp |-> ParseDate(validatedEvent.timestamp, legacy),
     data |-> validatedEvent.data,
     metadata |-> [receivedAt |-> now, processedAt |-> now]]

\* Math.floor(Date.now() / 1000)
UnixSeconds(now) == now.day * (24 * 60 * 60) + now.ms \div 1000

\* toISOString throws a RangeError on an invalid Date
CanSerialize(processedEvent) == processedEvent.timestamp.valid

\* the expiry rounded to the nearest second instead of cut to the second
toStoredEventRounded(processedEvent, now) ==
    [eventId |-> processedEvent.eventId,
     chargerId |-> processedEvent.chargerId,
     timestamp |-> ToISOString(processedEvent.timestamp),
     data |-> processedEvent.data,
     metadata |-> [receivedAt |-> ToISOString(processedEvent.metadata.receivedAt),
                   processedAt |-> ToISOString(processedEvent.metadata.processedAt)],
     ttl |-> now.day * (24 * 60 * 60) + (now.ms + 500) \div 1000 + TTL_DAYS * 24 * 60 * 60]

toStoredEvent(processedEvent, now) ==
    [eventId |-> processedEvent.eventId,
     chargerId |-> processedEvent.chargerId,
     timestamp |-> ToISOString(processedEvent.timestamp),
     data |-> processedEvent.data,
     metadata |-> [receivedAt |-> ToISOString(processedEvent.metadata.receivedAt),
                   processedAt |-> ToISOString(processedEvent.metadata.processedAt)],
     ttl |-> UnixSeconds(now) + TTL_DAYS * 24 * 60 * 60]

\* the table's primary key: partition key chargerId, sort key timestamp
SameKey(a, b) == a.chargerId = b.chargerId /\ a.timestamp = b.timestamp

\* the put conditional on the key being absent: the earlier item stays
PutItemIfAbsent(items, item) ==
    IF \E it \in items : SameKey(it, item) THEN items ELSE items \cup {item}

\* the put replacing whatever item has the same sort key, in any partition
PutItemBySortKey(items, item) ==
    {it \in items : it.timestamp # item.timestamp} \cup {item}

\* the put taking the partition key for the whole key
PutItemByPartition(items, item) ==
    {it \in items : it.chargerId # item.chargerId} \cup {item}

\* PutCommand without a condition: the item takes the place of any item of its key
PutItem(items, item) == {it \in items : ~SameKey(it, item)} \cup {item}

(***************************************************************************)
(* lambda/query                                                            *)
(***************************************************************************)
\* the item of the greatest sort key
GreatestOf(part) ==
    CHOOSE it \in part : \A other \in part : ~StrLess(it.timestamp, other.timestamp)

FirstDescending(part) == IF part = {} THEN <<>> ELSE <<GreatestOf(part)>>

\* the query without its key condition
QueryLatestAnyPartition(items, chargerId) == FirstDescending(items)

\* QueryCommand: the items of the partition, by sort key descending
\* (ScanIndexForward false), at most one (Limit 1)
QueryLatest(items, chargerId) ==
    FirstDescending({it \in items : it.chargerId = chargerId})

Response(code, body) == [statusCode |-> code, body |-> body]

ErrorBody(message) == [status |-> "error", message |-> message]

\* the QueryResponse built from the first item
FoundBody(storedEvent) ==
    [chargerId |-> storedEvent.chargerId,
     timestamp |-> storedEvent.timestamp,
     data |-> storedEvent.data,
     metadata |-> [receivedAt |-> storedEvent.metadata.receivedAt,
                   processedAt |-> storedEvent.metadata.processedAt]]

\* the first item as the store returns it when it was not written by toStoredEvent:
\* the cast to StoredEvent checks nothing, and the item has no metadata
WithoutMetadata(items) ==
    [i \in DOMAIN items |-> [chargerId |-> items[i].chargerId,
                             timestamp |-> items[i].timestamp,
                             data |-> items[i].data]]

\* the messages of the errors docClient.send may reject with
StoreErrors == {"ProvisionedThroughputExceededException", "ResourceNotFoundException"}

\* the answers of the store to the query: its items, items that lack their
\* metadata, or an error
StoreResults == {"ok", "malformed", "error"}

QueryAnswer(code, body, calls, sends) ==
    [resp |-> Response(code, body), calls |-> calls, sends |-> sends, thrown |-> FALSE]

\* the handler reading the path parameter as missing only when it is undefined
QueryResultUndefinedOnly(chargerId, storeResult, storeError, items, duration, cwOk) ==
    IF chargerId = Undefined
    THEN QueryAnswer(400, ErrorBody("Missing required path parameter: chargerId"), <<>>, 0)
    ELSE IF storeResult = "error"
    THEN QueryAnswer(500, ErrorBody("Internal server error"),
                     <<MetricCall(QueryMetricData(duration), cwOk)>>, 1)
    ELSE IF Len(items) = 0
    THEN QueryAnswer(404, [status |-> "not_found",
                           message |-> "No telemetry found for charger"],
                     <<MetricCall(QueryMetricData(duration), cwOk)>>, 1)
    ELSE IF "metadata" \notin DOMAIN items[1]
    THEN QueryAnswer(500, ErrorBody("Internal server error"),
                     <<MetricCall(QueryMetricData(duration), cwOk),
                       MetricCall(QueryMetricData(duration), cwOk)>>, 1)
    ELSE QueryAnswer(200, FoundBody(items[1]),
                     <<MetricCall(QueryMetricData(duration), cwOk)>>, 1)

\* the handler putting the message of the store's error into the 500 body
QueryResultLeakingError(chargerId, storeResult, storeError, items, duration, cwOk) ==
    IF Falsy(chargerId)
    THEN QueryAnswer(400, ErrorBody("Missing required path parameter: chargerId"), <<>>, 0)
    ELSE IF storeResult = "error"
    THEN QueryAnswer(500, ErrorBody(storeError),
                     <<MetricCall(QueryMetricData(duration), cwOk)>>, 1)
    ELSE IF Len(items) = 0
    THEN QueryAnswer(404, [status |-> "not_found",
                           message |-> "No telemetry found for charger"],
                     <<MetricCall(QueryMetricData(duration), cwOk)>>, 1)
    ELSE IF "metadata" \notin DOMAIN items[1]
    THEN QueryAnswer(500, ErrorBody("Internal server error"),
                     <<MetricCall(QueryMetricData(duration), cwOk),
                       MetricCall(QueryMetricData(duration), cwOk)>>, 1)
    ELSE QueryAnswer(200, FoundBody(items[1]),
                     <<MetricCall(QueryMetricData(duration), cwOk)>>, 1)

\* the handler with the response built outside its try block: the TypeError of
\* reading the metadata of an item that has none leaves the handler
QueryResultUncaught(chargerId, storeResult, storeError, items, duration, cwOk) ==
    IF Falsy(chargerId)
    THEN QueryAnswer(400, ErrorBody("Missing required path parameter: chargerId"), <<>>, 0)
    ELSE IF storeResult = "error"
    THEN QueryAnswer(500, ErrorBody("Internal server error"),
                     <<MetricCall(QueryMetricData(duration), cwOk)>>, 1)
    ELSE IF Len(items) = 0
    THEN QueryAnswer(404, [status |-> "not_found",
                           message |-> "No telemetry found for charger"],
                     <<MetricCall(QueryMetricData(duration), cwOk)>>, 1)
    ELSE IF "metadata" \notin DOMAIN items[1]
    THEN [resp |-> NoResponse,
          calls |-> <<MetricCall(QueryMetricData(duration), cwOk)>>,
          sends |-> 1, thrown |-> TRUE]
    ELSE QueryAnswer(200, FoundBody(items[1]),
                     <<MetricCall(QueryMetricData(duration), cwOk)>>, 1)

\* the handler, given its path parameter, the answer of the store to the query
\* ("ok" or "malformed" with its items, or "error": docClient.send rejects with
\* storeError) and whether CloudWatch takes the calls of the request.  Reading the
\* metadata of an item that has none throws inside the try block, after the
\* measurement was published: the catch block publishes it again and answers 500.
QueryResult(chargerId, storeResult, storeError, items, duration, cwOk) ==
    IF Falsy(chargerId)
    THEN QueryAnswer(400, ErrorBody("Missing required path parameter: chargerId"), <<>>, 0)
    ELSE IF storeResult = "error"
    THEN QueryAnswer(500, ErrorBody("Internal server error"),
                     <<MetricCall(QueryMetricData(duration), cwOk)>>, 1)
    ELSE IF Len(items) = 0
    THEN QueryAnswer(404, [status |-> "not_found",
                           message |-> "No telemetry found for charger"],
                     <<MetricCall(QueryMetricData(duration), cwOk)>>, 1)
    ELSE IF "metadata" \notin DOMAIN items[1]
    THEN QueryAnswer(500, ErrorBody("Internal server error"),
                     <<MetricCall(QueryMetricData(duration), cwOk),
                       MetricCall(QueryMetricData(duration), cwOk)>>, 1)
    ELSE QueryAnswer(200, FoundBody(items[1]),
                     <<MetricCall(QueryMetricData(duration), cwOk)>>, 1)

\* what the store answers with for the items of the query
AnsweredItems(storeResult, items) ==
    IF storeResult = "malformed" THEN WithoutMetadata(items) ELSE items

QueryParams == {Undefined, <<>>, IdA, IdB}

(***************************************************************************)
(* lambda/health                                                           *)
(***************************************************************************)
\* how DescribeTable ends: the status of the table, a response without a Table,
\* or an error
DescribeOutcomes == {"ACTIVE", "CREATING", "UPDATING", "noTable", "error"}

checkDynamoDBHealth(describe) == IF describe = "ACTIVE" THEN "healthy" ELSE "unhealthy"

\* "https://q"
DlqUrl == <<104, 116, 116, 112, 115, 58, 47, 47, 113>>

\* process.env.DLQ_URL: set by the stack, undefined or empty elsewhere
DlqUrls == {Undefined, <<>>, DlqUrl}

\* how GetQueueAttributes ends: an error, or a response whose
\* ApproximateNumberOfMessages is missing or a string of digits
SqsOutcome(ok, value) == [ok |-> ok, value |-> value]

SqsOutcomes ==
    { SqsOutcome(FALSE, Undefined),
      SqsOutcome(TRUE, Undefined),
      SqsOutcome(TRUE, <<>>),
      SqsOutcome(TRUE, <<48>>),
      SqsOutcome(TRUE, <<57>>),
      SqsOutcome(TRUE, <<49, 48>>),
      SqsOutcome(TRUE, <<49, 49>>),
      SqsOutcome(TRUE, <<50, 53, 48>>) }

\* parseInt(s, 10) of a string of digits
ParseInt(s) == NumAt(s, 1, Len(s))

DlqHealth(status, depth) == [status |-> status, depth |-> depth]

\* the threshold taken as inclusive: ten messages already count as degraded
DlqHealthOfDepthInclusive(depth) ==
    DlqHealth(IF depth >= 10 THEN "degraded" ELSE "healthy", depth)

\* const status = depth > 10 ? 'degraded' : 'healthy'
DlqHealthOfDepth(depth) == DlqHealth(IF depth > 10 THEN "degraded" ELSE "healthy", depth)

\* the sub-check reporting a failed depth read as degraded
checkDLQHealthFailClosed(dlqUrl, sqs) ==
    IF Falsy(dlqUrl) THEN DlqHealth("healthy", 0)
    ELSE IF ~sqs.ok THEN DlqHealth("degraded", 0)
    ELSE DlqHealthOfDepth(ParseInt(IF Falsy(sqs.value) THEN <<ChZero>> ELSE sqs.value))

checkDLQHealth(dlqUrl, sqs) ==
    IF Falsy(dlqUrl) THEN DlqHealth("healthy", 0)
    ELSE IF ~sqs.ok THEN DlqHealth("healthy", 0)
    ELSE DlqHealthOfDepth(ParseInt(IF Falsy(sqs.value) THEN <<ChZero>> ELSE sqs.value))

\* the verdict with the dead-letter check looked at first
overallStatusDlqFirst(dynamoHealth, dlqStatus) ==
    IF dlqStatus = "degraded" THEN "degraded"
    ELSE IF dynamoHealth = "unhealthy" THEN "unhealthy"
    ELSE "healthy"

overallStatus(dynamoHealth, dlqStatus) ==
    IF dynamoHealth = "unhealthy" THEN "unhealthy"
    ELSE IF dlqStatus = "degraded" THEN "degraded"
    ELSE "healthy"

\* ComponentStatus: the dead-letter fields are set only if DLQ_URL is
components(dlqUrl, dynamoHealth, dlqHealth) ==
    IF Falsy(dlqUrl)
    THEN [dynamodb |-> dynamoHealth]
    ELSE [dynamodb |-> dynamoHealth, dlq |-> dlqHealth.status, dlqDepth |-> dlqHealth.depth]

HealthResponse(status, comps) == [status |-> status, components |-> comps]

\* the response of the catch block
HealthFailure == Response(500, HealthResponse("unhealthy", [dynamodb |-> "unhealthy"]))

\* the handler answering with a status code that follows the verdict
HealthResultByVerdict(dlqUrl, dynamoHealth, dlqHealth, tryThrows) ==
    IF tryThrows THEN HealthFailure
    ELSE Response(IF dynamoHealth = "unhealthy" THEN 500 ELSE 200,
                  HealthResponse(overallStatus(dynamoHealth, dlqHealth.status),
                                 components(dlqUrl, dynamoHealth, dlqHealth)))

\* the handler from the results of the two sub-checks on; tryThrows: an exception
\* is raised inside the try block (no call of the block raises one: both
\* sub-checks catch their own errors)
HealthResult(dlqUrl, dynamoHealth, dlqHealth, tryThrows) ==
    IF tryThrows THEN HealthFailure
    ELSE Response(200,
                  HealthResponse(overallStatus(dynamoHealth, dlqHealth.status),
                                 components(dlqUrl, dynamoHealth, dlqHealth)))

(***************************************************************************)
(* Actions                                                                 *)
(***************************************************************************)
Invocation(handler, e, outcome, calls, sends, invokes, thrown) ==
    [handler |-> handler, e |-> e, at |-> clock, outcome |-> outcome, calls |-> calls,
     sends |-> sends, invokeCalls |-> 0, invokes |-> invokes, thrown |-> thrown,
     param |-> Undefined, storeResult |-> "none", error |-> "", resp |-> NoResponse,
     uuid |-> 0, item |-> NoPayload, health |-> NoHealth, order |-> <<>>]

Init ==
    /\ clock = 0
    /\ ev = [e \in Events |-> IdleEvent]
    /\ table = {}
    /\ dlq = <<>>
    /\ uuidCount = 0
    /\ issued = {}
    /\ inv = NoInvocation
    /\ faults = TRUE
    /\ vIn = NoPayload
    /\ vNow = StartOfRun
    /\ vOut = NoResult

\* how a call to a service of the write path (the processor's invocation, the put,
\* PutMetricData) may end in this run: TRUE it succeeds, FALSE it fails
CallOutcomes == IF faults THEN BOOLEAN ELSE {TRUE}

\* the clock advances
Tick ==
    /\ clock < MaxTick
    /\ clock' = clock + 1
    /\ UNCHANGED <<ev, table, dlq, uuidCount, issued, inv, faults>>
    /\ UNCHANGED validationVars

\* the IoT rule hands a raw event to the validator (an asynchronous invocation)
Deliver(e, raw) ==
    /\ ev[e].pc = "idle"
    /\ \A f \in Events : f < e => ev[f].pc # "idle"
    /\ ev' = [ev EXCEPT ![e].pc = "validator", ![e].raw = raw]
    /\ UNCHANGED <<clock, table, dlq, uuidCount, issued, inv, faults>>
    /\ UNCHANGED validationVars

\* the handler throwing after a rejection as it does after a failed invocation
ValidatorOutcomeThrowing(isValid, invokeOk) ==
    IF isValid /\ invokeOk THEN "forwarded" ELSE "invokeFailed"

\* how the validator's handler ends: it returns after a rejection, returns after
\* the processor was invoked, or rethrows the failure of that invocation
ValidatorOutcome(isValid, invokeOk) ==
    IF ~isValid THEN "rejected"
    ELSE IF invokeOk THEN "forwarded"
    ELSE "invokeFailed"

\* what the invoking service does with the delivery after a validator attempt threw:
\* it retries while retries are left, and has no failure destination
AfterValidatorThrow(attemptsMade) ==
    IF attemptsMade > MaxValidatorRetries THEN "dropped" ELSE "validator"

\* where the delivery is after a validator attempt
AfterValidator(outcome, attemptsMade) ==
    IF outcome = "rejected" THEN "rejected"
    ELSE IF outcome = "forwarded" THEN "processor"
    ELSE AfterValidatorThrow(attemptsMade)

\* the validator's handler from the result r of validateEvent on: the metric call,
\* then for a valid event the invocation of the processor
ValidatorEnd(e, r, outcome, data, cwOk) ==
    /\ ev' = [ev EXCEPT
                ![e].pc = AfterValidator(outcome, ev[e].vAttempts + 1),
                ![e].result = [isValid |-> r.isValid,
                               rejectionReason |-> r.rejectionReason],
                ![e].vAttempts = @ + 1,
                ![e].payload = IF outcome = "forwarded"
                               THEN InvokePayload(r.validatedEvent) ELSE @,
                ![e].invokes = @ + (IF outcome = "forwarded" THEN 1 ELSE 0),
                ![e].counts.rejected = @ + CountSignals(data, "EventsRejected"),
                ![e].counts.validated = @ + CountSignals(data, "EventsValidated")]
    /\ inv' = [Invocation("validator", e, outcome, <<MetricCall(data, cwOk)>>,
                   0, IF outcome = "forwarded" THEN 1 ELSE 0, outcome = "invokeFailed")
               EXCEPT !.invokeCalls = IF r.isValid THEN 1 ELSE 0]

ValidatorRun(e, r, cwOk, invokeOk) ==
    ValidatorEnd(e, r, ValidatorOutcome(r.isValid, invokeOk),
                 ValidationMetricData(r.isValid, r.rejectionReason), cwOk)

\* one invocation of the validator's handler
ValidatorHandler(e) ==
    /\ ev[e].pc = "validator"
    /\ \E legacy \in LegacyFor(ev[e].raw.timestamp),
          cwOk \in CallOutcomes, invokeOk \in CallOutcomes :
         ValidatorRun(e, validateEvent(ev[e].raw, Now, legacy), cwOk, invokeOk)
    /\ UNCHANGED <<clock, table, dlq, uuidCount, issued, faults>>
    /\ UNCHANGED validationVars

\* the failure destination reached one failure early
AfterProcessorThrowEarly(failures) ==
    IF failures >= retryAttempts THEN "deadletter" ELSE "processor"

\* what the invoking service does after a processor attempt threw: it retries
\* retryAttempts times, then hands the event to the onFailure destination
AfterProcessorThrow(failures) ==
    IF failures > retryAttempts THEN "deadletter" ELSE "processor"

\* where the event is after a processor attempt
AfterProcessor(stored, failures) ==
    IF stored THEN "stored" ELSE AfterProcessorThrow(failures)

\* the record holding what the last attempt made of the event
FailureRecordOfLastItem(e, requestPayload, lastItem, invokeCount) ==
    [e |-> e, condition |-> "RetriesExhausted", approximateInvokeCount |-> invokeCount,
     requestPayload |-> lastItem]

\* the invocation record the service sends to the onFailure destination of an
\* asynchronous invocation: it holds the event the function was invoked with,
\* not what the handler made of it
FailureRecord(e, requestPayload, lastItem, invokeCount) ==
    [e |-> e, condition |-> "RetriesExhausted", approximateInvokeCount |-> invokeCount,
     requestPayload |-> requestPayload]

\* the error the try block of the processor ends with when the item is not
\* stored: toISOString's RangeError before the put, else the error of the put
CaughtError(canStore) ==
    IF canStore THEN "ProvisionedThroughputExceededException" ELSE "RangeError"

\* the attempt failing when CloudWatch does not take the call, after the put
ProcessorEndMetricsFatal(e, uuid, canStore, storedEvent, stored, status, next, data, cwOk) ==
    /\ table' = IF stored THEN PutItem(table, storedEvent) ELSE table
    /\ issued' = issued \cup {uuid}
    /\ dlq' = IF next = "deadletter"
              THEN Append(dlq, FailureRecord(e, ev[e].payload, storedEvent,
                                             ev[e].pAttempts + 1))
              ELSE dlq
    /\ ev' = [ev EXCEPT
                ![e].pc = IF stored /\ ~cwOk THEN "processor" ELSE next,
                ![e].pAttempts = @ + 1,
                ![e].pFailures = @ + (IF stored THEN 0 ELSE 1),
                ![e].sends = @ + (IF canStore THEN 1 ELSE 0),
                ![e].receivedAt = IF canStore THEN storedEvent.metadata.receivedAt ELSE @,
                ![e].counts.success = @ + CountSignalsOf(data, "EventsProcessed", "success"),
                ![e].counts.failure = @ + CountSignalsOf(data, "EventsProcessed", "failure")]
    /\ inv' = [Invocation("processor", e, status, <<MetricCall(data, cwOk)>>,
                   IF canStore THEN 1 ELSE 0, 0, ~stored \/ ~cwOk)
               EXCEPT !.uuid = uuid, !.item = storedEvent,
                      !.error = IF ~stored THEN CaughtError(canStore)
                                ELSE IF ~cwOk THEN "CloudWatchError" ELSE ""]

\* the catch block returning instead of rethrowing
ProcessorEndSwallowing(e, uuid, canStore, storedEvent, stored, status, next, data, cwOk) ==
    /\ table' = IF stored THEN PutItem(table, storedEvent) ELSE table
    /\ issued' = issued \cup {uuid}
    /\ dlq' = dlq
    /\ ev' = [ev EXCEPT
                ![e].pc = IF stored THEN "stored" ELSE "dropped",
                ![e].pAttempts = @ + 1,
                ![e].pFailures = @ + (IF stored THEN 0 ELSE 1),
                ![e].sends = @ + (IF canStore THEN 1 ELSE 0),
                ![e].receivedAt = IF canStore THEN storedEvent.metadata.receivedAt ELSE @,
                ![e].counts.success = @ + CountSignalsOf(data, "EventsProcessed", "success"),
                ![e].counts.failure = @ + CountSignalsOf(data, "EventsProcessed", "failure")]
    /\ inv' = [Invocation("processor", e, status, <<MetricCall(data, cwOk)>>,
                   IF canStore THEN 1 ELSE 0, 0, FALSE)
               EXCEPT !.uuid = uuid, !.item = storedEvent, !.error = ""]

\* the end of a processor attempt: the item is in the table or the attempt failed,
\* the metric call is made, and a failure is rethrown to the invoking service
ProcessorEnd(e, uuid, canStore, storedEvent, stored, status, next, data, cwOk) ==
    /\ table' = IF stored THEN PutItem(table, storedEvent) ELSE table
    /\ issued' = issued \cup {uuid}
    /\ dlq' = IF next = "deadletter"
              THEN Append(dlq, FailureRecord(e, ev[e].payload, storedEvent,
                                             ev[e].pAttempts + 1))
              ELSE dlq
    /\ ev' = [ev EXCEPT
                ![e].pc = next,
                ![e].pAttempts = @ + 1,
                ![e].pFailures = @ + (IF stored THEN 0 ELSE 1),
                ![e].sends = @ + (IF canStore THEN 1 ELSE 0),
                ![e].receivedAt = IF canStore THEN storedEvent.metadata.receivedAt ELSE @,
                ![e].counts.success = @ + CountSignalsOf(data, "EventsProcessed", "success"),
                ![e].counts.failure = @ + CountSignalsOf(data, "EventsProcessed", "failure")]
    /\ inv' = [Invocation("processor", e, status, <<MetricCall(data, cwOk)>>,
                   IF canStore THEN 1 ELSE 0, 0, ~stored)
               EXCEPT !.uuid = uuid, !.item = storedEvent,
                      !.error = IF stored THEN "" ELSE CaughtError(canStore)]

ProcessorStore(e, uuid, canStore, storedEvent, stored, cwOk) ==
    ProcessorEnd(e, uuid, canStore, storedEvent, stored,
                 IF stored THEN "success" ELSE "failure",
                 AfterProcessor(stored, ev[e].pFailures + (IF stored THEN 0 ELSE 1)),
                 ProcessorMetricData(0, IF stored THEN "success" ELSE "failure"), cwOk)

\* toStoredEvent throws for a date that cannot be serialized, before any write
ProcessorSerialize(e, processedEvent, canStore, putOk, cwOk) ==
    ProcessorStore(e, processedEvent.eventId, canStore,
                   IF canStore THEN toStoredEvent(processedEvent, Now) ELSE NoPayload,
                   canStore /\ putOk, cwOk)

ProcessorRun(e, processedEvent, putOk, cwOk) ==
    ProcessorSerialize(e, processedEvent, CanSerialize(processedEvent), putOk, cwOk)

\* one invocation of the processor's handler
ProcessorHandler(e) ==
    /\ ev[e].pc = "processor"
    /\ \E legacy \in LegacyFor(ev[e].payload.timestamp),
          putOk \in CallOutcomes, cwOk \in CallOutcomes :
         ProcessorRun(e, enrichEvent(ev[e].payload, randomUUID(uuidCount + 1), Now, legacy),
                      putOk, cwOk)
    /\ uuidCount' = uuidCount + 1
    /\ UNCHANGED <<clock, faults>>
    /\ UNCHANGED validationVars

QueryEnd(chargerId, storeResult, storeError, q) ==
    inv' = [Invocation("query", 0, "returned", q.calls, q.sends, 0, q.thrown)
            EXCEPT !.param = chargerId,
                   !.storeResult = IF q.sends = 0 THEN "none" ELSE storeResult,
                   !.error = IF q.sends = 0 THEN "" ELSE storeError,
                   !.resp = q.resp]

\* one getLatest request
QueryHandler(chargerId) ==
    /\ \E storeResult \in StoreResults, cwOk \in BOOLEAN :
         \E storeError \in (IF storeResult = "error" THEN StoreErrors ELSE {""}) :
            QueryEnd(chargerId, storeResult, storeError,
                     QueryResult(chargerId, storeResult, storeError,
                                 AnsweredItems(storeResult, QueryLatest(table, chargerId)),
                                 0, cwOk))
    /\ UNCHANGED <<clock, ev, table, dlq, uuidCount, issued, faults>>
    /\ UNCHANGED validationVars

HealthEnd(input, dynamoHealth, dlqHealth, resp) ==
    inv' = [Invocation("health", 0, "returned", <<>>, 0, 0, FALSE)
            EXCEPT !.param = input,
                   !.resp = resp,
                   !.health = [dynamodb |-> dynamoHealth, dlq |-> dlqHealth]]

HealthRun(input, dynamoHealth, dlqHealth) ==
    HealthEnd(input, dynamoHealth, dlqHealth,
              HealthResult(input.dlqUrl, dynamoHealth, dlqHealth, input.tryThrows))

\* one request of the health endpoint
HealthHandler(dlqUrl, describe, sqs, tryThrows) ==
    /\ HealthRun([dlqUrl |-> dlqUrl, describe |-> describe, sqs |-> sqs,
                  tryThrows |-> tryThrows],
                 checkDynamoDBHealth(describe), checkDLQHealth(dlqUrl, sqs))
    /\ UNCHANGED <<clock, ev, table, dlq, uuidCount, issued, faults>>
    /\ UNCHANGED validationVars

\* the write path: deliveries, the validator and the processor
Next ==
    \/ Tick
    \/ \E e \in Events, raw \in RawEvents : Deliver(e, raw)
    \/ \E e \in Events : ValidatorHandler(e)
    \/ \E e \in Events : ProcessorHandler(e)

Spec == Init /\ [][Next]_vars

(***************************************************************************)
(* The read path beside the write path.  getLatest changes nothing of the  *)
(* write path; its requests are interleaved with ingestions whose calls    *)
(* succeed, and the store query and PutMetricData of a request may fail.   *)
(***************************************************************************)
InitQuery ==
    /\ clock = 0
    /\ ev = [e \in Events |-> IdleEvent]
    /\ table = {}
    /\ dlq = <<>>
    /\ uuidCount = 0
    /\ issued = {}
    /\ inv = NoInvocation
    /\ faults = FALSE
    /\ vIn = NoPayload
    /\ vNow = StartOfRun
    /\ vOut = NoResult

NextQuery ==
    \/ Tick
    \/ \E e \in Events, raw \in RawEvents : Deliver(e, raw)
    \/ \E e \in Events : ValidatorHandler(e)
    \/ \E e \in Events : ProcessorHandler(e)
    \/ \E chargerId \in QueryParams : QueryHandler(chargerId)

SpecQuery == InitQuery /\ [][NextQuery]_vars

(***************************************************************************)
(* The health endpoint alone: it reads the table's status and the depth of *)
(* the dead-letter queue from the services and changes nothing.            *)
(***************************************************************************)
NextHealth ==
    \E dlqUrl \in DlqUrls, describe \in DescribeOutcomes, sqs \in SqsOutcomes,
       tryThrows \in BOOLEAN :
        HealthHandler(dlqUrl, describe, sqs, tryThrows)

SpecHealth == Init /\ [][NextHealth]_vars

(***************************************************************************)
(* The health endpoint step by step: the handler starts both sub-checks,   *)
(* each settles when its call returns, and Promise.all resumes the handler *)
(* when both have settled.  inv.order lists the sub-checks as they settle. *)
(***************************************************************************)
SubChecks == {"dynamodb", "dlq"}

Settled(order) == {order[i] : i \in DOMAIN order}

\* the handler resuming as soon as one sub-check has settled
AnySettled(order) == Settled(order) # {}

\* await Promise.all([...]): every sub-check has settled
AllSettled(order) == Settled(order) = SubChecks

\* the handler is called and calls both sub-checks
HealthStart(dlqUrl, describe, sqs, tryThrows) ==
    /\ inv.handler = "health" => inv.outcome = "returned"
    /\ inv' = [Invocation("health", 0, "running", <<>>, 0, 0, FALSE)
               EXCEPT !.param = [dlqUrl |-> dlqUrl, describe |-> describe, sqs |-> sqs,
                                 tryThrows |-> tryThrows]]
    /\ UNCHANGED <<clock, ev, table, dlq, uuidCount, issued, faults>>
    /\ UNCHANGED validationVars

\* the result a sub-check settles with
SubCheckResult(name, input, health) ==
    IF name = "dynamodb"
    THEN [health EXCEPT !.dynamodb = checkDynamoDBHealth(input.describe)]
    ELSE [health EXCEPT !.dlq = checkDLQHealth(input.dlqUrl, input.sqs)]

\* a sub-check settles: its call has returned or failed, and it caught the failure
HealthSubCheckSettles(name) ==
    /\ inv.handler = "health"
    /\ inv.outcome = "running"
    /\ name \notin Settled(inv.order)
    /\ inv' = [inv EXCEPT !.order = Append(@, name),
                          !.health = SubCheckResult(name, inv.param, @)]
    /\ UNCHANGED <<clock, ev, table, dlq, uuidCount, issued, faults>>
    /\ UNCHANGED validationVars

\* the handler resumes with both results and answers
HealthJoin ==
    /\ inv.handler = "health"
    /\ inv.outcome = "running"
    /\ AllSettled(inv.order)
    /\ inv' = [inv EXCEPT !.outcome = "returned",
                          !.resp = HealthResult(inv.param.dlqUrl, inv.health.dynamodb,
                                                inv.health.dlq, inv.param.tryThrows)]
    /\ UNCHANGED <<clock, ev, table, dlq, uuidCount, issued, faults>>
    /\ UNCHANGED validationVars

NextHealthSteps ==
    \/ \E dlqUrl \in DlqUrls, describe \in DescribeOutcomes, sqs \in SqsOutcomes,
          tryThrows \in BOOLEAN :
           HealthStart(dlqUrl, describe, sqs, tryThrows)
    \/ \E name \in SubChecks : HealthSubCheckSettles(name)
    \/ HealthJoin

SpecHealthSteps == Init /\ [][NextHealthSteps]_vars

(***************************************************************************)
(* Two chargers: the write path with failing calls, getLatest and the      *)
(* health endpoint side by side, on raw events of two chargers, within one *)
(* millisecond.  The health check reads the depth of the processor's       *)
(* dead-letter queue as it is.                                             *)
(***************************************************************************)
DeviceEvents ==
    { RawEvent(IdA, TsEarly, DataV1),
      RawEvent(IdB, TsEarly, DataEmpty) }

\* ApproximateNumberOfMessages of a queue of n messages, n < 10
DepthAttribute(n) == <<ChZero + n>>

NextDevices ==
    \/ \E e \in Events, raw \in DeviceEvents : Deliver(e, raw)
    \/ \E e \in Events : ValidatorHandler(e)
    \/ \E e \in Events : ProcessorHandler(e)
    \/ \E chargerId \in {IdA, IdB} : QueryHandler(chargerId)
    \/ \E describe \in {"ACTIVE", "error"},
          sqs \in {SqsOutcome(FALSE, Undefined), SqsOutcome(TRUE, DepthAttribute(Len(dlq)))} :
           HealthHandler(DlqUrl, describe, sqs, FALSE)

SpecDevices == Init /\ [][NextDevices]_vars

(***************************************************************************)
(* validateEvent alone, on a wider set of raw events                       *)
(***************************************************************************)
InitValidation ==
    /\ clock = 0
    /\ ev = [e \in Events |-> IdleEvent]
    /\ table = {}
    /\ dlq = <<>>
    /\ uuidCount = 0
    /\ issued = {}
    /\ inv = NoInvocation
    /\ faults = TRUE
    /\ vIn \in {RawEvent(c, t, d) : c \in ValChargerIds, t \in ValTimestamps,
                                    d \in {Undefined, DataV1}}
    /\ vNow \in ValNows
    /\ vOut = NoResult

Validate(legacy) ==
    /\ vOut = NoResult
    /\ vOut' = validateEvent(vIn, vNow, legacy)
    /\ UNCHANGED <<vIn, vNow>>
    /\ UNCHANGED pipelineVars

NextValidation == \E legacy \in LegacyOutcomes : Validate(legacy)

SpecValidation == InitValidation /\ [][NextValidation]_vars

(***************************************************************************)
(* C1: the order of the validation checks                                  *)
(***************************************************************************)
\* the instants the canonical timestamps of ValTimestamps are printed from
CanonicalInstants ==
    { MkDate(19737, 37000000),
      AddMs(StartOfRun, clockSkewMs),
      AddMs(StartOfRun, clockSkewMs + 1),
      AddMs(StartOfRun, clockSkewMs + 2),
      MkDate(DaysFromCivil(-1, 6, 1), 0),
      MkDate(DaysFromCivil(-2, 6, 1), 0),
      MkDate(DaysFromCivil(10000, 1, 1), 0) }

\* a string is a canonical ISO8601 instant if it is what some instant prints as
IsCanonical(timestamp) == \E d \in CanonicalInstants : ToISOString(d) = timestamp

InstantOf(timestamp) == CHOOSE d \in CanonicalInstants : ToISOString(d) = timestamp

Present(v) == v # Undefined /\ v # <<>>

\* the five checks, each stated on its own
Check1(event) == Present(event.chargerId)
Check2(event) == Present(event.timestamp)
Check3(event) ==
    \A i \in 1..Len(event.chargerId) :
        \/ event.chargerId[i] \in 48..57
        \/ event.chargerId[i] \in 65..90
        \/ event.chargerId[i] \in 97..122
        \/ event.chargerId[i] \in {45, 95}
Check4(event) == IsCanonical(event.timestamp)
Check5(event, now) ==
    ~TimeGreater(InstantOf(event.timestamp), AddMs(now, 5 * 60 * 1000))

\* the reason of the first check that fails, "" if none does
FirstFailing(event, now) ==
    IF ~Check1(event) THEN "MissingChargerId"
    ELSE IF ~Check2(event) THEN "MissingTimestamp"
    ELSE IF ~Check3(event) THEN "InvalidChargerIdFormat"
    ELSE IF ~Check4(event) THEN "InvalidTimestampFormat"
    ELSE IF ~Check5(event, now) THEN "FutureTimestamp"
    ELSE ""

\* C1: validation reports the reason of the first of the five checks, in the order
\* chargerId present, timestamp present, chargerId format, timestamp canonical,
\* timestamp not beyond now + 5 minutes, that the raw event fails, also when it
\* fails several; the event is valid exactly if it fails none.
C1_FirstFailingCheckWins ==
    vOut # NoResult =>
        /\ vOut.isValid = (FirstFailing(vIn, vNow) = "")
        /\ vOut.rejectionReason = FirstFailing(vIn, vNow)

\* a raw event failing checks 3 and 4 at once was rejected for check 3
C1_Witness ==
    /\ vIn.chargerId = IdBad
    /\ vIn.timestamp = TsNoMillis
    /\ vOut.rejectionReason = "InvalidChargerIdFormat"

(***************************************************************************)
(* C2: a rejected event is terminal                                        *)
(***************************************************************************)
\* the validator has run on delivery e and found its raw event invalid
FailedValidation(e) == ev[e].vAttempts >= 1 /\ ~ev[e].result.isValid

\* the messages of the dead-letter queue that hold delivery e
DeadLetters(e) == {i \in DOMAIN dlq : dlq[i].e = e}

\* C2: for a raw event that fails validation the processor is never invoked, no
\* store write is made, the validator ran once and returned without throwing, one
\* EventsRejected count with the rejection reason was emitted, and no
\* EventsValidated or EventsProcessed count.
C2_RejectedIsTerminal ==
    /\ \A e \in Events :
          FailedValidation(e) =>
              /\ ev[e].pc = "rejected"
              /\ ev[e].vAttempts = 1
              /\ ev[e].invokes = 0
              /\ ev[e].pAttempts = 0
              /\ ev[e].sends = 0
              /\ DeadLetters(e) = {}
              /\ ev[e].counts = [validated |-> 0, rejected |-> 1, success |-> 0, failure |-> 0]
    /\ (inv.handler = "validator" /\ FailedValidation(inv.e)) =>
          /\ ~inv.thrown
          /\ inv.invokes = 0
          /\ inv.sends = 0
          /\ Len(inv.calls) = 1
          /\ CountSignalsOf(inv.calls[1].data, "EventsRejected",
                            ev[inv.e].result.rejectionReason) = 1
          /\ Len(inv.calls[1].data) = 1

\* an event ten minutes in the future was rejected while another event was stored
C2_Witness ==
    \E e \in Events, f \in Events :
        /\ ev[e].pc = "rejected"
        /\ ev[e].result.rejectionReason = "FutureTimestamp"
        /\ ev[f].pc = "stored"

(***************************************************************************)
(* C3: bounded retry, then the dead-letter queue                           *)
(***************************************************************************)
\* C3: an event handed to the processor is attempted at most 3 times, an attempt
\* makes at most one store write, and the event is on the dead-letter queue
\* exactly if 3 attempts failed: not before the third failure, and not after an
\* attempt succeeded.
C3_BoundedRetryThenDeadLetter ==
    /\ \A e \in Events :
          /\ ev[e].pAttempts <= 3
          /\ ev[e].sends <= ev[e].pAttempts
          /\ (DeadLetters(e) # {}) <=> (ev[e].pFailures = 3)
          /\ Cardinality(DeadLetters(e)) <= 1
          /\ ev[e].counts.success >= 1 => DeadLetters(e) = {}
          /\ ev[e].pc = "stored" => ev[e].pFailures < 3
          /\ ev[e].pc = "processor" => ev[e].pAttempts = ev[e].pFailures
    /\ inv.handler = "processor" => inv.sends <= 1

\* one event was dead-lettered after three failed attempts, another was stored by
\* its third attempt
C3_Witness ==
    \E e \in Events, f \in Events :
        /\ ev[e].pc = "deadletter" /\ ev[e].pAttempts = 3 /\ DeadLetters(e) # {}
        /\ ev[f].pc = "stored" /\ ev[f].pAttempts = 3

(***************************************************************************)
(* C4: what a successful ingestion does to the stored records              *)
(***************************************************************************)
RECURSIVE SuccessesUpTo(_)
SuccessesUpTo(n) == IF n = 0 THEN 0 ELSE ev[n].counts.success + SuccessesUpTo(n - 1)

IngestionSucceeds ==
    \E e \in Events : ev'[e].counts.success = ev[e].counts.success + 1

StoredInstant(timestamp) == ParseDate(timestamp, InvalidDate)

\* C5: a getLatest that finds records returns the one whose timestamp is the
\* greatest, the newest instant, among the records stored for the charger at the
\* time of the query.
C5_LatestIsNewest ==
    (inv.handler = "query" /\ inv.resp.statusCode = 200) =>
        \A it \in table :
            it.chargerId = inv.param =>
                ~TimeGreater(StoredInstant(it.timestamp),
                             StoredInstant(inv.resp.body.timestamp))

(***************************************************************************)
(* C6: every attempt enriches from scratch                                 *)
(***************************************************************************)
RECURSIVE AttemptsUpTo(_)
AttemptsUpTo(n) == IF n = 0 THEN 0 ELSE ev[n].pAttempts + AttemptsUpTo(n - 1)

\* C6: every processing attempt, a retry included, uses an eventId of its own:
\* the attempts made so far used as many eventIds as there were attempts, stored
\* records of different attempts differ in eventId, and the record of an attempt
\* carries the id generated in it and the clock read in it.
C6_FreshIdEveryAttempt ==
    /\ uuidCount = AttemptsUpTo(MaxEvents)
    /\ Cardinality(issued) = AttemptsUpTo(MaxEvents)
    /\ \A a \in table : a.eventId \in issued
    /\ \A a \in table, b \in table : a # b => a.eventId # b.eventId
    /\ (inv.handler = "processor" /\ inv.sends = 1) =>
          /\ inv.item.eventId = inv.uuid
          /\ inv.item.metadata.receivedAt = ToISOString(ClockAt(inv.at))
          /\ inv.item.metadata.processedAt = ToISOString(ClockAt(inv.at))

\* two deliveries of the same raw event were processed, one of them retried
C6_Witness ==
    \E e \in Events, f \in Events :
        /\ e # f
        /\ ev[e].raw = ev[f].raw
        /\ ev[e].pAttempts >= 2
        /\ ev[f].pAttempts >= 1

(***************************************************************************)
(* C7: no validated event is lost                                          *)
(***************************************************************************)
\* C7: an event that passed validation and is no longer with the validator or the
\* processor was stored or dead-lettered, and each failed step on its way was
\* counted by a failure signal.
C7_ValidatedIsStoredOrDeadLettered ==
    \A e \in Events :
        (ev[e].counts.validated >= 1 /\ ev[e].pc \notin {"validator", "processor"}) =>
            /\ ev[e].pc \in {"stored", "deadletter"}
            /\ ev[e].counts.failure = (ev[e].vAttempts - ev[e].invokes) + ev[e].pFailures

(***************************************************************************)
(* C8: one count signal for each terminal transition                       *)
(***************************************************************************)
CountTypeData(data) == Cardinality({i \in DOMAIN data : data[i].Unit = "Count"})

\* C8: a rejection emits one EventsRejected count, a stored attempt one
\* EventsProcessed count of status success, a failed attempt one EventsProcessed
\* count of status failure, each in one PutMetricData call that carries no other
\* count; the call is made whether or not CloudWatch takes it.
C8_OneCountPerTerminalTransition ==
    /\ \A e \in Events :
          /\ ev[e].counts.rejected = (IF ev[e].pc = "rejected" THEN 1 ELSE 0)
          /\ ev[e].counts.success = (IF ev[e].pc = "stored" THEN 1 ELSE 0)
          /\ ev[e].counts.failure = ev[e].pFailures
    /\ (inv.handler = "validator" /\ inv.outcome = "rejected") =>
          /\ Len(inv.calls) = 1
          /\ CountTypeData(inv.calls[1].data) = 1
          /\ CountSignals(inv.calls[1].data, "EventsRejected") = 1
    /\ inv.handler = "processor" =>
          /\ Len(inv.calls) = 1
          /\ CountTypeData(inv.calls[1].data) = 1
          /\ CountSignalsOf(inv.calls[1].data, "EventsProcessed",
                            IF inv.thrown THEN "failure" ELSE "success") = 1
          /\ inv.thrown <=> ev[inv.e].pc # "stored"

\* one event was rejected, another failed an attempt and was stored by a later one
C8_Witness ==
    \E e \in Events, f \in Events :
        /\ ev[e].pc = "rejected"
        /\ ev[f].pc = "stored" /\ ev[f].pFailures >= 1

(***************************************************************************)
(* C9, C10: the outcomes of getLatest                                      *)
(***************************************************************************)
HasQueryDuration(calls) ==
    \E i \in DOMAIN calls :
        \E j \in DOMAIN calls[i].data : calls[i].data[j].MetricName = "QueryDuration"

\* C9: every getLatest request, whatever its outcome (200, 404, 400, 500), emits
\* a QueryDuration measurement.
C9_QueryDurationOnEveryOutcome == inv.handler = "query" => HasQueryDuration(inv.calls)

\* C10: getLatest for a charger without stored records answers 404 not_found when
\* the store query succeeds, and never 400; it answers 500 only when the store
\* query failed.
C10_NoRecordsIsNotFound ==
    (/\ inv.handler = "query"
     /\ Present(inv.param)
     /\ \A it \in table : it.chargerId # inv.param) =>
        /\ inv.resp.statusCode \in {404, 500}
        /\ inv.resp.statusCode = 500 <=> inv.storeResult = "error"
        /\ inv.resp.statusCode = 404 => inv.resp.body.status = "not_found"

\* a charger without records was asked for while another charger has records
C10_Witness ==
    /\ inv.handler = "query"
    /\ inv.param = IdB
    /\ table # {}
    /\ inv.storeResult = "ok"
    /\ inv.resp.statusCode = 404

(***************************************************************************)
(* C11, C12, C13: the error outcomes of getLatest                          *)
(***************************************************************************)
\* C11: getLatest with a missing or empty chargerId answers 400 with status error
\* and its own message, sends no query to the store, and answers 400 in no other
\* case.
C11_MissingIdIsClientError ==
    inv.handler = "query" =>
        /\ ~Present(inv.param) =>
              /\ inv.resp.statusCode = 400
              /\ inv.resp.body.status = "error"
              /\ inv.resp.body.message # "Internal server error"
              /\ inv.sends = 0
        /\ inv.resp.statusCode = 400 => ~Present(inv.param)

\* the empty chargerId was asked for while the table holds records
C11_Witness ==
    /\ inv.handler = "query"
    /\ inv.param = <<>>
    /\ table # {}
    /\ inv.resp.statusCode = 400

\* C12: when the store query fails, getLatest answers 500 with the body of status
\* error and the message "Internal server error" and nothing else, whatever the
\* error of the store was, and not 404 or 200.
C12_StoreFailureIsGeneric500 ==
    (inv.handler = "query" /\ inv.storeResult = "error") =>
        /\ inv.error \in StoreErrors
        /\ inv.resp = [statusCode |-> 500,
                       body |-> [status |-> "error", message |-> "Internal server error"]]

\* the store failed on the query for a charger that has records
C12_Witness ==
    /\ inv.handler = "query"
    /\ inv.storeResult = "error"
    /\ inv.error = "ResourceNotFoundException"
    /\ \E it \in table : it.chargerId = inv.param
    /\ inv.resp.statusCode = 500

\* the fields of a 200 body, and of the body of any other response
FoundFields == {"chargerId", "timestamp", "data", "metadata"}
StatusFields == {"status", "message"}

\* C13: whatever the store answers (items, no items, an item without metadata, an
\* error) and whether or not the measurement is taken by CloudWatch, the query
\* handler returns a response of status code 200, 400, 404 or 500 with a body of
\* the shape of that code, and throws nothing.
C13_ReadPathAlwaysAnswers ==
    inv.handler = "query" =>
        /\ ~inv.thrown
        /\ inv.resp.statusCode \in {200, 400, 404, 500}
        /\ DOMAIN inv.resp.body =
              (IF inv.resp.statusCode = 200 THEN FoundFields ELSE StatusFields)

\* the store returned an item without metadata and CloudWatch took no call
C13_Witness ==
    /\ inv.handler = "query"
    /\ inv.storeResult = "malformed"
    /\ \E it \in table : it.chargerId = inv.param
    /\ \A i \in DOMAIN inv.calls : ~inv.calls[i].delivered
    /\ inv.resp.statusCode = 500

(***************************************************************************)
(* C14, C15, C16: the health endpoint                                      *)
(***************************************************************************)
Healthy200 == inv.handler = "health" /\ inv.resp.statusCode = 200

\* C14: the verdict is unhealthy if the store check is unhealthy, whatever the
\* dead-letter check says; otherwise degraded if the dead-letter check is
\* degraded; otherwise healthy.  The store check is healthy exactly if
\* DescribeTable succeeded and reported ACTIVE.
C14_VerdictOfTheTwoChecks ==
    inv.handler = "health" =>
        /\ inv.health.dynamodb = "healthy" <=> inv.param.describe = "ACTIVE"
        /\ inv.health.dynamodb \in {"healthy", "unhealthy"}
        /\ Healthy200 =>
              /\ inv.health.dynamodb = "unhealthy" => inv.resp.body.status = "unhealthy"
              /\ (inv.health.dynamodb = "healthy" /\ inv.health.dlq.status = "degraded")
                    => inv.resp.body.status = "degraded"
              /\ (inv.health.dynamodb = "healthy" /\ inv.health.dlq.status = "healthy")
                    => inv.resp.body.status = "healthy"

\* the table is not active and the dead-letter queue holds 11 messages
C14_Witness ==
    /\ Healthy200
    /\ inv.param.describe = "CREATING"
    /\ inv.health.dlq = [status |-> "degraded", depth |-> 11]
    /\ inv.resp.body.status = "unhealthy"

\* C15: without a dead-letter queue configured, and when the read of its depth
\* fails, the dead-letter check reports healthy with depth 0, and the verdict is
\* that of the store check.
C15_DeadLetterCheckFailsOpen ==
    (inv.handler = "health" /\ (~Present(inv.param.dlqUrl) \/ ~inv.param.sqs.ok)) =>
        /\ inv.health.dlq = [status |-> "healthy", depth |-> 0]
        /\ Healthy200 => inv.resp.body.status = inv.health.dynamodb

\* the read of the depth failed while the table is active
C15_Witness ==
    /\ Healthy200
    /\ inv.param.dlqUrl = DlqUrl
    /\ ~inv.param.sqs.ok
    /\ inv.param.describe = "ACTIVE"
    /\ inv.resp.body.status = "healthy"

\* C16: the health handler throws nothing and answers with a snapshot: 200 with
\* the verdict and the components whenever the check completes, also when the
\* verdict is unhealthy or degraded, and 500 only when the check itself failed,
\* then with status unhealthy and the store reported unhealthy.
C16_HealthAlwaysAnswers ==
    inv.handler = "health" =>
        /\ ~inv.thrown
        /\ inv.resp.statusCode = (IF inv.param.tryThrows THEN 500 ELSE 200)
        /\ inv.resp.body.status \in {"healthy", "degraded", "unhealthy"}
        /\ inv.resp.body.components.dynamodb \in {"healthy", "unhealthy"}
        /\ inv.resp.statusCode = 200 =>
              DOMAIN inv.resp.body.components =
                  (IF Present(inv.param.dlqUrl)
                   THEN {"dynamodb", "dlq", "dlqDepth"} ELSE {"dynamodb"})
        /\ inv.resp.statusCode = 500 =>
              inv.resp.body = [status |-> "unhealthy",
                               components |-> [dynamodb |-> "unhealthy"]]

\* the check completed with the verdict unhealthy and was answered with 200
C16_Witness ==
    /\ Healthy200
    /\ inv.param.describe = "error"
    /\ inv.resp.body.status = "unhealthy"

(***************************************************************************)
(* C17: a failed metric emission changes nothing else                      *)
(***************************************************************************)
\* the answer of the query handler is the same with and without CloudWatch
\* taking its calls, for every request on the table as it is
QueryAnswerIgnoresMetrics ==
    \A chargerId \in QueryParams, storeResult \in StoreResults, storeError \in StoreErrors :
        \A field \in {"resp", "sends", "thrown"} :
            QueryResult(chargerId, storeResult, storeError,
                        AnsweredItems(storeResult, QueryLatest(table, chargerId)),
                        0, TRUE)[field]
            = QueryResult(chargerId, storeResult, storeError,
                          AnsweredItems(storeResult, QueryLatest(table, chargerId)),
                          0, FALSE)[field]

\* C17: what a handler returns or throws, and the invocations and writes it
\* makes, follow from its primary steps alone, whether or not CloudWatch takes
\* the metric call: the validator invokes the processor once for a valid event
\* and throws exactly if that invocation failed; the processor throws exactly if
\* its item was not stored, and a stored event is neither retried nor
\* dead-lettered; the query handler answers the same either way.
C17_MetricFailureChangesNothing ==
    /\ inv.handler = "validator" =>
          /\ inv.invokeCalls = (IF ev[inv.e].result.isValid THEN 1 ELSE 0)
          /\ inv.thrown <=> (inv.invokeCalls = 1 /\ inv.invokes = 0)
          /\ inv.sends = 0
    /\ inv.handler = "processor" =>
          /\ inv.sends = 1
          /\ inv.thrown <=> inv.item \notin table
          /\ ~inv.thrown =>
                /\ ev[inv.e].pc = "stored"
                /\ inv.outcome = "success"
                /\ DeadLetters(inv.e) = {}
    /\ QueryAnswerIgnoresMetrics

\* an event was stored by its first attempt although CloudWatch did not take the
\* metric call of the attempt
C17_Witness ==
    /\ inv.handler = "processor"
    /\ ~inv.calls[1].delivered
    /\ inv.item \in table
    /\ ev[inv.e].pc = "stored"
    /\ ev[inv.e].pAttempts = 1
    /\ ~inv.thrown

(***************************************************************************)
(* C20: a failed attempt measures, then rethrows                           *)
(***************************************************************************)
\* C20: a processor attempt that did not store its item made one PutMetricData
\* call carrying the ProcessingDuration measurement and one EventsProcessed count
\* of status failure, and then threw the error it had caught, whether or not
\* CloudWatch took the call; it did not return, so the event goes to a retry or,
\* after the last attempt, to the dead-letter queue, and never counts as stored.
C20_FailedAttemptMeasuresAndRethrows ==
    (inv.handler = "processor" /\ inv.item \notin table) =>
        /\ Len(inv.calls) = 1
        /\ \E i \in DOMAIN inv.calls[1].data :
              /\ inv.calls[1].data[i].MetricName = "ProcessingDuration"
              /\ inv.calls[1].data[i].Unit = "Milliseconds"
        /\ CountSignalsOf(inv.calls[1].data, "EventsProcessed", "failure") = 1
        /\ CountSignalsOf(inv.calls[1].data, "EventsProcessed", "success") = 0
        /\ inv.thrown
        /\ inv.error = CaughtError(inv.sends = 1)
        /\ inv.outcome = "failure"
        /\ ev[inv.e].pc \in {"processor", "deadletter"}
        /\ ev[inv.e].counts.success = 0

\* the put of an attempt failed and CloudWatch did not take the failure
\* measurement either; the attempt threw and the event waits for its retry
C20_Witness ==
    /\ inv.handler = "processor"
    /\ inv.sends = 1
    /\ inv.item \notin table
    /\ ~inv.calls[1].delivered
    /\ inv.thrown
    /\ ev[inv.e].pc = "processor"

(***************************************************************************)
(* C19: the clock-skew boundary                                            *)
(***************************************************************************)
\* the raw event passes every check before the one on the clock
WellFormed(event) == Check1(event) /\ Check2(event) /\ Check3(event) /\ Check4(event)

\* the instant five minutes after now
SkewLimit(now) == AddMs(now, 5 * 60 * 1000)

\* C19: a raw event with a present, well-formed chargerId and a canonical
\* timestamp is rejected, and then as FutureTimestamp, exactly if its instant is
\* strictly later than now + 5 minutes; at now + 5 minutes to the millisecond,
\* and at any earlier instant, years before the common era included, it is valid.
C19_ClockSkewBoundary ==
    (vOut # NoResult /\ WellFormed(vIn)) =>
        /\ (vOut.rejectionReason = "FutureTimestamp")
              <=> TimeGreater(InstantOf(vIn.timestamp), SkewLimit(vNow))
        /\ InstantOf(vIn.timestamp) = SkewLimit(vNow) => vOut.isValid
        /\ TimeGreater(SkewLimit(vNow), InstantOf(vIn.timestamp)) => vOut.isValid
        /\ vOut.isValid \/ vOut.rejectionReason = "FutureTimestamp"

\* an event stamped now + 5 minutes to the millisecond was found valid
C19_Witness ==
    /\ WellFormed(vIn)
    /\ vOut # NoResult
    /\ InstantOf(vIn.timestamp) = SkewLimit(vNow)
    /\ vOut.isValid

(***************************************************************************)
(* C18: the round trip through the write path and the read path            *)
(***************************************************************************)
\* record r carries the chargerId, the timestamp string and the data of raw
SameAsRaw(r, raw) ==
    /\ r.chargerId = raw.chargerId
    /\ r.timestamp = raw.timestamp
    /\ r.data = raw.data

\* C18: the item a successful processor attempt wrote is in the table and carries
\* the chargerId, the timestamp string (the sort key) and the data of the raw
\* event of its delivery, character for character; every item of the table
\* carries those of the raw event of some stored delivery; and the body of a
\* 200 answer of getLatest carries those of the raw event of a stored delivery
\* of the charger asked for.
C18_RoundTripIsVerbatim ==
    /\ (inv.handler = "processor" /\ ~inv.thrown) =>
          /\ inv.item \in table
          /\ SameAsRaw(inv.item, ev[inv.e].raw)
    /\ \A it \in table :
          \E e \in Events : ev[e].pc = "stored" /\ SameAsRaw(it, ev[e].raw)
    /\ (inv.handler = "query" /\ inv.resp.statusCode = 200) =>
          \E e \in Events :
              /\ ev[e].pc = "stored"
              /\ ev[e].raw.chargerId = inv.param
              /\ SameAsRaw(inv.resp.body, ev[e].raw)

\* getLatest answered with the record of a stored event of a year before the
\* common era while a raw event whose timestamp has no milliseconds was rejected
C18_Witness ==
    /\ inv.handler = "query"
    /\ inv.resp.statusCode = 200
    /\ \E e \in Events, f \in Events :
          /\ ev[e].pc = "stored"
          /\ ev[e].raw.timestamp = TsBC2
          /\ SameAsRaw(inv.resp.body, ev[e].raw)
          /\ ev[f].pc = "rejected"
          /\ ev[f].raw.timestamp = TsNoMillis

(***************************************************************************)
(* C21: the expiry stamp                                                   *)
(***************************************************************************)
\* ttl is the whole seconds since the epoch at instant d, plus 90 days
ExpiresNinetyDaysAfter(ttl, d) ==
    /\ (ttl - 90 * 24 * 60 * 60 - d.day * 86400) * 1000 <= d.ms
    /\ d.ms < (ttl - 90 * 24 * 60 * 60 - d.day * 86400 + 1) * 1000

\* C21: the item a processor attempt wrote carries as ttl the whole seconds of the
\* clock at that attempt plus 90 days, whatever the timestamp of the event is; and
\* every item of the table carries the ttl of some instant the clock has shown.
C21_ExpiryIsWriteTimePlusNinetyDays ==
    /\ (inv.handler = "processor" /\ inv.sends = 1) =>
          ExpiresNinetyDaysAfter(inv.item.ttl, ClockAt(inv.at))
    /\ \A it \in table :
          \E tick \in 0..clock : ExpiresNinetyDaysAfter(it.ttl, ClockAt(tick))

\* an event of a year before the common era was stored 850 milliseconds into a
\* second
C21_Witness ==
    /\ inv.handler = "processor"
    /\ inv.item \in table
    /\ inv.at = 1
    /\ ClockAt(inv.at).ms % 1000 = 850
    /\ inv.item.timestamp = TsBC1
    /\ inv.item.ttl = 19737 * 86400 + 37800 + 7776000

(***************************************************************************)
(* C22: validation is a function of the raw event and now                  *)
(***************************************************************************)
\* the result of the validation that ran is the result of every validation of
\* the same raw event at the same now, whatever an implementation-defined parse
\* of the timestamp gives
SameResultEveryTime ==
    vOut # NoResult =>
        \A legacy \in LegacyOutcomes : validateEvent(vIn, vNow, legacy) = vOut

\* a validation leaves the table, the dead-letter queue, the deliveries with
\* their counters and invocations, the raw event and now as they are
ValidationWritesNothing ==
    /\ UNCHANGED <<table, dlq, ev, uuidCount, issued, inv, clock>>
    /\ UNCHANGED <<vIn, vNow>>

\* C22: for a fixed now, every validation of a raw event gives the same rejection
\* reason or the same ValidatedEvent, and a validation changes nothing but its
\* own result: no record, no dead letter, no invocation, no counter.
C22_ValidationIsDeterministicAndPure ==
    /\ []SameResultEveryTime
    /\ [][ValidationWritesNothing]_vars

\* a timestamp outside the date-time string format, whose parse is implementation
\* defined, was rejected for its format
C22_Witness ==
    /\ vOut # NoResult
    /\ vIn.chargerId = IdLong
    /\ vIn.timestamp = TsWord
    /\ LegacyFor(vIn.timestamp) = LegacyOutcomes
    /\ vOut.rejectionReason = "InvalidTimestampFormat"
    /\ table = {} /\ dlq = <<>> /\ inv = NoInvocation

(***************************************************************************)
(* C23: the threshold of the dead-letter check                             *)
(***************************************************************************)
\* the number of messages an answer of GetQueueAttributes states, 0 if it states
\* none
DepthRead(value) ==
    CASE value = <<48>> -> 0
      [] value = <<57>> -> 9
      [] value = <<49, 48>> -> 10
      [] value = <<49, 49>> -> 11
      [] value = <<50, 53, 48>> -> 250
      [] OTHER -> 0

\* C23: with the queue configured and its depth read, the dead-letter check
\* reports the depth read, and degraded exactly if that depth is above 10: ten
\* messages and fewer are healthy, eleven are degraded; a 200 answer shows both.
C23_DegradedAboveTenMessages ==
    (inv.handler = "health" /\ Present(inv.param.dlqUrl) /\ inv.param.sqs.ok) =>
        /\ inv.health.dlq.depth = DepthRead(inv.param.sqs.value)
        /\ inv.health.dlq.status =
              (IF DepthRead(inv.param.sqs.value) > 10 THEN "degraded" ELSE "healthy")
        /\ Healthy200 =>
              /\ inv.resp.body.components.dlq = inv.health.dlq.status
              /\ inv.resp.body.components.dlqDepth = DepthRead(inv.param.sqs.value)

\* ten messages were read and reported as healthy
C23_Witness ==
    /\ Healthy200
    /\ inv.param.dlqUrl = DlqUrl
    /\ inv.param.sqs = SqsOutcome(TRUE, <<49, 48>>)
    /\ inv.resp.body.components.dlqDepth = 10
    /\ inv.resp.body.components.dlq = "healthy"

(***************************************************************************)
(* C24: the two health sub-checks are independent and joined               *)
(***************************************************************************)
\* C24: the health handler answers only when the store check and the dead-letter
\* check have both settled; its answer is what the inputs of the request
\* determine, whichever of the two settled first; and each sub-check settles with
\* the result its own call determines, also when the call of the other failed.
C24_SubChecksAreJoinedAndIndependent ==
    inv.handler = "health" =>
        /\ inv.outcome = "returned" <=> inv.resp # NoResponse
        /\ inv.outcome = "returned" =>
              /\ Settled(inv.order) = {"dynamodb", "dlq"}
              /\ Len(inv.order) = 2
              /\ inv.resp = HealthResult(inv.param.dlqUrl,
                                         checkDynamoDBHealth(inv.param.describe),
                                         checkDLQHealth(inv.param.dlqUrl, inv.param.sqs),
                                         inv.param.tryThrows)
        /\ inv.health.dynamodb =
              (IF "dynamodb" \in Settled(inv.order)
               THEN checkDynamoDBHealth(inv.param.describe) ELSE "none")
        /\ inv.health.dlq =
              (IF "dlq" \in Settled(inv.order)
               THEN checkDLQHealth(inv.param.dlqUrl, inv.param.sqs) ELSE NoHealth.dlq)

\* the dead-letter check settled first, the call of the store check failed, and
\* the snapshot reports the store unhealthy and the eleven messages read
C24_Witness ==
    /\ Healthy200
    /\ inv.order = <<"dlq", "dynamodb">>
    /\ inv.param.describe = "error"
    /\ inv.param.dlqUrl = DlqUrl
    /\ inv.resp.body.components.dynamodb = "unhealthy"
    /\ inv.resp.body.components.dlq = "degraded"
    /\ inv.resp.body.components.dlqDepth = 11

(***************************************************************************)
(* C25: what an attempt of the processor emits                             *)
(***************************************************************************)
\* how many ProcessingDuration measurements the calls of an invocation carry
DurationData(calls) ==
    Cardinality({p \in {<<c, i>> : c \in DOMAIN calls, i \in 1..2} :
                    /\ p[2] \in DOMAIN calls[p[1]].data
                    /\ calls[p[1]].data[p[2]].MetricName = "ProcessingDuration"
                    /\ calls[p[1]].data[p[2]].Unit = "Milliseconds"})

\* C25 as stated: a processor attempt emits a ProcessingDuration measurement only
\* if its store write succeeded.
C25_DurationOnlyAfterStoreWrite ==
    (inv.handler = "processor" /\ DurationData(inv.calls) > 0) => inv.item \in table

\* C25, amended: a processor attempt makes one PutMetricData call; it carries the
\* success count exactly if the store write of the attempt succeeded and the
\* failure count exactly if it did not, never both, and one ProcessingDuration
\* measurement in either case; the attempt returns success exactly if its store
\* write succeeded, and throws otherwise.
C25_CountFollowsTheStoreWrite ==
    inv.handler = "processor" =>
        /\ Len(inv.calls) = 1
        /\ CountSignalsOf(inv.calls[1].data, "EventsProcessed", "success")
              = (IF inv.item \in table THEN 1 ELSE 0)
        /\ CountSignalsOf(inv.calls[1].data, "EventsProcessed", "failure")
              = (IF inv.item \in table THEN 0 ELSE 1)
        /\ CountSignals(inv.calls[1].data, "EventsProcessed") = 1
        /\ DurationData(inv.calls) = 1
        /\ (inv.outcome = "success" /\ ~inv.thrown) <=> inv.item \in table
        /\ inv.thrown <=> inv.item \notin table

\* the store write of an attempt failed, and the attempt emitted a
\* ProcessingDuration measurement beside its failure count
C25_Witness ==
    /\ inv.handler = "processor"
    /\ inv.sends = 1
    /\ inv.item \notin table
    /\ DurationData(inv.calls) = 1
    /\ CountSignalsOf(inv.calls[1].data, "EventsProcessed", "failure") = 1
    /\ inv.thrown

(***************************************************************************)
(* C26: what reaches the dead-letter queue, and what follows               *)
(***************************************************************************)
\* the message holds the event as the processor was invoked with it: the
\* chargerId, timestamp and data of the raw event and nothing else
HoldsValidatedEvent(r) ==
    /\ DOMAIN r.requestPayload = {"chargerId", "timestamp", "data"}
    /\ r.requestPayload = ev[r.e].payload
    /\ r.requestPayload.chargerId = ev[r.e].raw.chargerId
    /\ r.requestPayload.timestamp = ev[r.e].raw.timestamp
    /\ r.requestPayload.data = ev[r.e].raw.data
    /\ r.condition = "RetriesExhausted"
    /\ r.approximateInvokeCount = 3

DeadLettersHoldValidatedEvents ==
    /\ \A i \in DOMAIN dlq : HoldsValidatedEvent(dlq[i]) /\ ev[dlq[i].e].pc = "deadletter"
    /\ \A e \in Events : ev[e].pc = "deadletter" => Cardinality(DeadLetters(e)) = 1

\* nothing runs for a dead-lettered event any more, and the queue keeps it
DeadLetteredStays ==
    /\ \A e \in Events : ev[e].pc = "deadletter" =>
          /\ ev'[e] = ev[e]
          /\ (inv' # inv /\ inv'.handler = "processor") => inv'.e # e
    /\ \A i \in DOMAIN dlq : i \in DOMAIN dlq' /\ dlq'[i] = dlq[i]

\* C26: the message the dead-letter queue receives after the third failed attempt
\* holds the validated event exactly as the processor was invoked with it, with
\* no eventId and no metadata of any attempt; a dead-lettered event is attempted
\* no more, so no store write is made for it afterwards.
C26_DeadLetterIsTheValidatedEvent ==
    /\ []DeadLettersHoldValidatedEvents
    /\ [][DeadLetteredStays]_vars

\* an event was dead-lettered after three attempts that each made an item of it,
\* and another delivery was stored afterwards
C26_Witness ==
    /\ Len(dlq) = 1
    /\ ev[dlq[1].e].pFailures = 3
    /\ ev[dlq[1].e].sends = 3
    /\ inv.handler = "processor"
    /\ inv.e # dlq[1].e
    /\ inv.item \in table

(***************************************************************************)
(* C27: the order of the sort keys and the order of the instants           *)
(***************************************************************************)
\* C27: for any two events the validator accepted, the timestamp string of the
\* one sorts before that of the other exactly if its instant is the earlier one;
\* so do the sort keys of any two items of the table.
C27_StringOrderIsChronological ==
    /\ \A e \in Events, f \in Events :
          (ev[e].result.isValid /\ ev[f].result.isValid) =>
              (StrLess(ev[e].raw.timestamp, ev[f].raw.timestamp)
                 <=> TimeGreater(StoredInstant(ev[f].raw.timestamp),
                                 StoredInstant(ev[e].raw.timestamp)))
    /\ \A a \in table, b \in table :
          StrLess(a.timestamp, b.timestamp)
            <=> TimeGreater(StoredInstant(b.timestamp), StoredInstant(a.timestamp))

(***************************************************************************)
(* C28: the two instants of the metadata                                   *)
(***************************************************************************)
\* receivedAt and processedAt of a record or of a response body are the same
OneInstant(r) == r.metadata.receivedAt = r.metadata.processedAt

\* the item of every attempt, every item of the table and the body of every
\* answer getLatest gives for it carry one instant twice: the clock at the attempt
MetadataIsOneInstant ==
    /\ (inv.handler = "processor" /\ inv.sends = 1) =>
          /\ OneInstant(inv.item)
          /\ inv.item.metadata.receivedAt = ToISOString(ClockAt(inv.at))
          /\ ev[inv.e].receivedAt = inv.item.metadata.receivedAt
    /\ \A it \in table :
          /\ OneInstant(it)
          /\ OneInstant(QueryResult(it.chargerId, "ok", "", <<it>>, 0, TRUE).resp.body)
          /\ QueryResult(it.chargerId, "ok", "", <<it>>, 0, TRUE).resp.body.metadata
                = it.metadata

\* an attempt of an event that was attempted before is not received earlier than
\* the attempt before it
ReceivedNoEarlier ==
    \A e \in Events :
        (ev'[e].pAttempts = ev[e].pAttempts + 1 /\ ev[e].pAttempts >= 1) =>
            ~TimeGreater(StoredInstant(ev[e].receivedAt), StoredInstant(ev'[e].receivedAt))

\* C28: receivedAt equals processedAt in the record every enrichment produces, in
\* every stored record and in every Found response, both being the clock read
\* once in that enrichment; and the receivedAt of an attempt is no earlier than
\* that of any earlier attempt of the same event.
C28_MetadataIsOneNonDecreasingInstant ==
    /\ []MetadataIsOneInstant
    /\ [][ReceivedNoEarlier]_vars

\* the second attempt of an event stored it, one clock tick after the first
C28_Witness ==
    /\ inv.handler = "processor"
    /\ inv.item \in table
    /\ ev[inv.e].pAttempts = 2
    /\ inv.at = 1
    /\ inv.item.metadata.processedAt = ToISOString(AddMs(StartOfRun, TickMs))
    /\ inv.item.metadata.receivedAt = ToISOString(AddMs(StartOfRun, TickMs))

(***************************************************************************)
(* C29: chargers are isolated, and reading writes nothing                  *)
(***************************************************************************)
\* the records of charger b
RecordsOf(items, b) == {it \in items : it.chargerId = b}

\* what getLatest answers for charger b on a table, the store and CloudWatch
\* answering
LatestOf(items, b) == QueryResult(b, "ok", "", QueryLatest(items, b), 0, TRUE).resp

\* the step is no processor attempt of an event of charger b
NoAttemptFor(b) ==
    \A e \in Events : ev'[e].pAttempts # ev[e].pAttempts => ev[e].raw.chargerId # b

\* a step that is no attempt for charger b leaves the records of b and the answer
\* of getLatest for b as they are
OtherChargersUntouched ==
    \A b \in {IdA, IdB} :
        NoAttemptFor(b) =>
            /\ RecordsOf(table', b) = RecordsOf(table, b)
            /\ LatestOf(table', b) = LatestOf(table, b)

\* a getLatest request and a health check leave the table, the dead-letter queue
\* and every delivery as they are
ReadsWriteNothing ==
    (inv' # inv /\ inv'.handler \in {"query", "health"}) =>
        /\ table' = table
        /\ dlq' = dlq
        /\ ev' = ev

\* C29: a processor attempt for a charger, stored, failed, retried or
\* dead-lettered, leaves the records of every other charger and the answer of
\* getLatest for it unchanged; getLatest and the health check change neither the
\* table nor the dead-letter queue.
C29_ChargersIsolatedReadsReadOnly ==
    [][OtherChargersUntouched /\ ReadsWriteNothing]_vars

\* getLatest finds the record of charger B after an event of charger A with the
\* same timestamp was attempted three times and dead-lettered
C29_Witness ==
    /\ inv.handler = "query"
    /\ inv.param = IdB
    /\ inv.resp.statusCode = 200
    /\ \E e \in Events :
          /\ ev[e].raw.chargerId = IdA
          /\ ev[e].pc = "deadletter"
          /\ ev[e].raw.timestamp = inv.resp.body.timestamp
    /\ Len(dlq) = 1

(***************************************************************************)
(* C30: every record of the table comes from a validated event             *)
(***************************************************************************)
\* a non-empty string of letters, digits, underscores and hyphens
WellFormedId(chargerId) ==
    /\ Present(chargerId)
    /\ \A i \in 1..Len(chargerId) :
          \/ chargerId[i] \in 48..57
          \/ chargerId[i] \in 65..90
          \/ chargerId[i] \in 97..122
          \/ chargerId[i] \in {45, 95}

\* the string is what its own instant prints as
CanonicalTimestamp(timestamp) ==
    /\ StoredInstant(timestamp).valid
    /\ ToISOString(StoredInstant(timestamp)) = timestamp

\* the record carries the fields of a delivery found valid, whose instant is not
\* later than five minutes after an instant the clock has shown
FromValidatedEvent(it) ==
    \E e \in Events :
        /\ ev[e].result.isValid
        /\ ev[e].vAttempts >= 1
        /\ SameAsRaw(it, ev[e].raw)
        /\ \E tick \in 0..clock :
              ~TimeGreater(StoredInstant(it.timestamp), AddMs(ClockAt(tick), 5 * 60 * 1000))

\* C30: every item of the table has a non-empty chargerId of the pattern
\* [A-Za-z0-9_-]+ and a canonical ISO8601 timestamp, and carries the fields of an
\* event the validator found valid, not more than five minutes ahead of the
\* clock; and the processor sends a put only for a timestamp that denotes an
\* instant.
C30_StoredRecordsAreValidated ==
    /\ \A it \in table :
          /\ WellFormedId(it.chargerId)
          /\ CanonicalTimestamp(it.timestamp)
          /\ FromValidatedEvent(it)
    /\ (inv.handler = "processor" /\ inv.sends = 1) =>
          /\ ev[inv.e].result.isValid
          /\ CanonicalTimestamp(inv.item.timestamp)
    /\ \A e \in Events : ~ev[e].result.isValid => ev[e].pAttempts = 0 /\ ev[e].sends = 0

\* one delivery was stored and the delivery of an event of the same charger, ten
\* minutes ahead of the clock, was rejected: the table holds the one record
C30_Witness ==
    /\ Cardinality(table) = 1
    /\ \E e \in Events, f \in Events :
          /\ ev[e].pc = "stored"
          /\ ev[f].pc = "rejected"
          /\ ev[f].raw.timestamp = TsFuture
          /\ ev[f].raw.chargerId = ev[e].raw.chargerId

(***************************************************************************)
(* C31: one record per key, the last write wins                            *)
(***************************************************************************)
\* the items of the table with the key of item
WithKeyOf(items, item) == {it \in items : SameKey(it, item)}

\* no two items of the table have the same chargerId and timestamp
OneRecordPerKey ==
    \A a \in table, b \in table :
        (a.chargerId = b.chargerId /\ a.timestamp = b.timestamp) => a = b

\* C31: the table holds at most one item per (chargerId, timestamp); after a
\* successful processor attempt the one item with the key of the attempt is the
\* item of that attempt, with its eventId, data and metadata, whether or not an
\* item with that key was there before; so two stored deliveries of the same key
\* leave one item.
C31_OneRecordPerKeyLastWriteWins ==
    /\ OneRecordPerKey
    /\ (inv.handler = "processor" /\ ~inv.thrown) =>
          /\ WithKeyOf(table, inv.item) = {inv.item}
          /\ inv.item.eventId = inv.uuid
          /\ inv.item.metadata.receivedAt = ToISOString(ClockAt(inv.at))
    /\ \A e \in Events, f \in Events :
          (/\ e # f
           /\ ev[e].pc = "stored" /\ ev[f].pc = "stored"
           /\ SameKey(ev[e].payload, ev[f].payload)) =>
              Cardinality(WithKeyOf(table, ev[e].payload)) = 1

\* two deliveries of one raw event were stored one clock tick apart, and the one
\* item left carries the eventId and the receivedAt of the second write
C31_Witness ==
    \E e \in Events, f \in Events :
        /\ e # f
        /\ ev[e].raw = ev[f].raw
        /\ ev[e].pc = "stored" /\ ev[f].pc = "stored"
        /\ ev[e].receivedAt = ToISOString(StartOfRun)
        /\ ev[f].receivedAt = ToISOString(AddMs(StartOfRun, TickMs))
        /\ inv.handler = "processor" /\ inv.e = f
        /\ Cardinality(table) = 1
        /\ \A it \in table :
              /\ it.eventId = inv.uuid
              /\ it.metadata.receivedAt = ev[f].receivedAt

(***************************************************************************)
(* C32: the query-duration measurements of one request                     *)
(***************************************************************************)
\* how many QueryDuration measurements the calls of an invocation carry
QueryDurationData(calls) ==
    Cardinality({c \in DOMAIN calls :
                    \E j \in DOMAIN calls[c].data :
                        calls[c].data[j].MetricName = "QueryDuration"})

\* C32: a getLatest request emits at most one QueryDuration measurement, whatever
\* its outcome, also when the item the store returned has no metadata and the
\* request ends as a 500.
C32_AtMostOneQueryDuration ==
    inv.handler = "query" => QueryDurationData(inv.calls) <= 1

=============================================================================
